---- MODULE Spec2Model ----
(***************************************************************************)
(* Namelist model of AutoWRFChem (autowrfchem/configuration/               *)
(* autowrf_classlib.py): Namelist / WrfNamelist / WpsNamelist and the      *)
(* NamelistContainer that keeps the WRF and WPS namelists together.        *)
(*                                                                         *)
(* Python values are records [k, n, d, s]: k is the Python type ("int",    *)
(* "float", "bool", "str", "none"), n/d the number (a float is the exact   *)
(* fraction n/d, d > 0), s the text of a str as a tuple of 1-character     *)
(* strings.  An option value is a tuple of such records (a Python list).   *)
(* An operation that can raise returns a record with the field err, the    *)
(* name of the exception ("" when it returned normally).                   *)
(***************************************************************************)
EXTENDS Integers, Sequences, FiniteSets, TLC

(***************************************************************************)
(* Bounds of the model.                                                    *)
(***************************************************************************)
\* largest number of domains a file or an edit asks for
MaxDom == 3
\* number of container edits followed after construction
MaxEdits == 1
\* number of cmd_set_other_opt calls followed when a script makes only these
MaxCmdEdits == 2
\* largest number of domains of the namelist _parse_option_input works on
MaxParseDom == 4

\* the most domains a namelist file of a container has
MaxNlcDom == 2
\* the most lines the top registry file has
MaxRegLines == 5
\* the most lines of a registry file that entries are looked up in
MaxLookupLines == 3
\* the most lines a namelist file read as text has
MaxFileLines == 3
\* the most domains of a WRF namelist whose time period is set
MaxTimeDom == 2
\* number of calls followed on a WRF namelist whose time period is set
MaxTimeEdits == 2

\* domains of the namelist.wps files of the map projection model
MaxMapDom == 2

\* calls of AdjustMapProjOpts on one namelist
MaxMapEdits == 3

\* the most domains of the file of a namelist read with match_n_domains
MaxReadDom == 2

\* calls of set_opt_val before a namelist is read with match_n_domains
MaxReadEdits == 4

\* the most domains of a namelist whose match_option_length_to_domains is called
MaxMatchDom == 4

\* the most domains of a namelist.wps whose dx is converted for WRF
MaxDxyDom == 4

(***************************************************************************)
(* Text.                                                                   *)
(***************************************************************************)
DigitChars == <<"0", "1", "2", "3", "4", "5", "6", "7", "8", "9">>

IsDigit(c) == \E i \in 1..10 : DigitChars[i] = c

DigitVal(c) == (CHOOSE i \in 1..10 : DigitChars[i] = c) - 1

\* string.whitespace, as far as the inputs of the model use it
Whitespace == {" "}

RECURSIVE AllDigits(_)
AllDigits(t) == t = <<>> \/ (IsDigit(Head(t)) /\ AllDigits(Tail(t)))

RECURSIVE DigitsVal(_)
\* value of a non-empty run of decimal digits
DigitsVal(t) ==
    IF Len(t) = 1 THEN DigitVal(t[1])
    ELSE 10 * DigitsVal(SubSeq(t, 1, Len(t) - 1)) + DigitVal(t[Len(t)])

RECURSIVE NatText(_)
\* str(n) for n >= 0
NatText(n) == IF n < 10 THEN <<DigitChars[n + 1]>>
              ELSE NatText(n \div 10) \o <<DigitChars[(n % 10) + 1]>>

IntText(n) == IF n < 0 THEN <<"-">> \o NatText(0 - n) ELSE NatText(n)

RECURSIVE LStrip(_, _)
LStrip(t, cs) == IF t # <<>> /\ Head(t) \in cs THEN LStrip(Tail(t), cs) ELSE t

RECURSIVE RStrip(_, _)
RStrip(t, cs) == IF t # <<>> /\ t[Len(t)] \in cs
                 THEN RStrip(SubSeq(t, 1, Len(t) - 1), cs) ELSE t

\* str.strip(chars)
Strip(t, cs) == RStrip(LStrip(t, cs), cs)

RECURSIVE Split(_, _)
\* str.split(sep) for a 1-character separator: always at least one piece
Split(t, sep) ==
    IF \A i \in 1..Len(t) : t[i] # sep THEN <<t>>
    ELSE LET i == CHOOSE j \in 1..Len(t) : t[j] = sep /\ \A h \in 1..(j - 1) : t[h] # sep
         IN  <<SubSeq(t, 1, i - 1)>> \o Split(SubSeq(t, i + 1, Len(t)), sep)

RECURSIVE Lower(_)
\* str.lower() on the letters the model's inputs use
Lower(t) ==
    IF t = <<>> THEN <<>>
    ELSE LET c == Head(t)
             l == CASE c = "T" -> "t" [] c = "F" -> "f" [] c = "R" -> "r"
                    [] c = "U" -> "u" [] c = "E" -> "e" [] c = "A" -> "a"
                    [] c = "L" -> "l" [] c = "S" -> "s" [] OTHER -> c
         IN  <<l>> \o Lower(Tail(t))

RECURSIVE RemoveChar(_, _)
\* str.replace(c, "")
RemoveChar(t, c) ==
    IF t = <<>> THEN <<>>
    ELSE (IF Head(t) = c THEN <<>> ELSE <<Head(t)>>) \o RemoveChar(Tail(t), c)

(***************************************************************************)
(* Python values.                                                          *)
(***************************************************************************)
RECURSIVE Gcd(_, _)
Gcd(a, b) == IF b = 0 THEN a ELSE Gcd(b, a % b)

Abs(x) == IF x < 0 THEN 0 - x ELSE x

PyInt(n) == [k |-> "int", n |-> n, d |-> 1, s |-> <<>>]

PyBool(b) == [k |-> "bool", n |-> IF b THEN 1 ELSE 0, d |-> 1, s |-> <<>>]

PyStr(t) == [k |-> "str", n |-> 0, d |-> 1, s |-> t]

PyNone == [k |-> "none", n |-> 0, d |-> 1, s |-> <<>>]

\* the float n/d (d > 0), in lowest terms
PyFloat(n, d) ==
    LET g == Gcd(Abs(n), d)
    IN  [k |-> "float", n |-> n \div g, d |-> d \div g, s |-> <<>>]

IsNumber(v) == v.k \in {"int", "float", "bool"}

\* Python ==  on two values
PyEq(a, b) ==
    IF IsNumber(a) /\ IsNumber(b) THEN a.n * b.d = b.n * a.d
    ELSE a.k = b.k /\ a.s = b.s

\* Python == on two lists
PyListEq(x, y) == Len(x) = Len(y) /\ \A i \in 1..Len(x) : PyEq(x[i], y[i])

(***************************************************************************)
(* Type conversions and type checks of namelist values.                    *)
(***************************************************************************)
Conv(v) == [err |-> "", v |-> v]

ConvErr(e) == [err |-> e, v |-> PyNone]

\* the text without a leading sign
Unsigned(t) == IF t # <<>> /\ Head(t) \in {"+", "-"} THEN Tail(t) ELSE t

Sign(t) == IF t # <<>> /\ Head(t) = "-" THEN 0 - 1 ELSE 1

\* does int(text) succeed: blanks, an optional sign, one or more digits
IntTextOk(t) ==
    LET u == Unsigned(Strip(t, Whitespace)) IN u # <<>> /\ AllDigits(u)

IntTextVal(t) ==
    LET st == Strip(t, Whitespace) IN Sign(st) * DigitsVal(Unsigned(st))

\* does float(text) succeed: blanks, an optional sign, digits with at most one
\* decimal point and at least one digit (exponents, inf and nan are not among
\* the texts the model feeds it)
FloatTextOk(t) ==
    LET u == Unsigned(Strip(t, Whitespace))
        parts == Split(u, ".")
    IN  /\ Len(parts) \in {1, 2}
        /\ \A i \in 1..Len(parts) : AllDigits(parts[i])
        /\ \E i \in 1..Len(parts) : parts[i] # <<>>

RECURSIVE Pow10(_)
Pow10(e) == IF e = 0 THEN 1 ELSE 10 * Pow10(e - 1)

FloatTextVal(t) ==
    LET st == Strip(t, Whitespace)
        parts == Split(Unsigned(st), ".")
        ip == IF parts[1] = <<>> THEN 0 ELSE DigitsVal(parts[1])
        fp == IF Len(parts) = 2 /\ parts[2] # <<>> THEN DigitsVal(parts[2]) ELSE 0
        fd == IF Len(parts) = 2 THEN Pow10(Len(parts[2])) ELSE 1
    IN  PyFloat(Sign(st) * (ip * fd + fp), fd)

\* _to_bool
_to_bool(val) ==
    IF val.k = "bool" THEN Conv(val)
    ELSE IF val.k # "str" THEN ConvErr("AttributeError")
    ELSE LET l == Lower(val.s)
         IN  IF l \in {<<"t">>, <<"t", "r", "u", "e">>, <<".", "t", "r", "u", "e", ".">>}
             THEN Conv(PyBool(TRUE))
             ELSE IF l \in {<<"f">>, <<"f", "a", "l", "s", "e">>,
                            <<".", "f", "a", "l", "s", "e", ".">>}
             THEN Conv(PyBool(FALSE))
             ELSE ConvErr("ValueError")

\* int(val): a float is truncated towards zero
ToInt(val) ==
    CASE val.k \in {"int", "bool"} -> Conv(PyInt(val.n))
      [] val.k = "float" ->
            Conv(PyInt(IF val.n < 0 THEN 0 - ((0 - val.n) \div val.d) ELSE val.n \div val.d))
      [] val.k = "str" ->
            IF IntTextOk(val.s) THEN Conv(PyInt(IntTextVal(val.s))) ELSE ConvErr("ValueError")
      [] OTHER -> ConvErr("TypeError")

\* float(val)
ToFloat(val) ==
    CASE val.k \in {"int", "bool"} -> Conv(PyFloat(val.n, 1))
      [] val.k = "float" -> Conv(val)
      [] val.k = "str" ->
            IF FloatTextOk(val.s) THEN Conv(FloatTextVal(val.s)) ELSE ConvErr("ValueError")
      [] OTHER -> ConvErr("TypeError")

\* str(val); a float is written as Python writes a whole number ("5.0"), the
\* only floats the model turns into text
ToStr(val) ==
    CASE val.k = "str" -> Conv(val)
      [] val.k = "int" -> Conv(PyStr(IntText(val.n)))
      [] val.k = "bool" -> Conv(PyStr(IF val.n = 1 THEN <<"T", "r", "u", "e">>
                                      ELSE <<"F", "a", "l", "s", "e">>))
      [] val.k = "float" -> Conv(PyStr(IntText(val.n \div val.d) \o <<".", "0">>))
      [] OTHER -> Conv(PyStr(<<"N", "o", "n", "e">>))

\* _type_conversions[reg_type](val)
_type_conversions(reg_type, val) ==
    CASE reg_type = "logical" -> _to_bool(val)
      [] reg_type = "integer" -> ToInt(val)
      [] reg_type = "real" -> ToFloat(val)
      [] reg_type = "character" -> ToStr(val)

\* isinstance(val, _type_mappings[reg_type]); a Python bool is an int
_type_mappings(reg_type, val) ==
    CASE reg_type = "logical" -> val.k = "bool"
      [] reg_type = "integer" -> val.k \in {"int", "bool"}
      [] reg_type = "real" -> val.k = "float"
      [] reg_type = "character" -> val.k = "str"

(***************************************************************************)
(* Registries.  A registry maps an option name to its Fortran type and its *)
(* cardinality (num_entries).                                              *)
(***************************************************************************)
RegEntry(type, num_entries) == [type |-> type, num_entries |-> num_entries]

\* the twelve per-domain date fields of the WRF namelist
WrfStartFields == <<"start_year", "start_month", "start_day",
                    "start_hour", "start_minute", "start_second">>

WrfEndFields == <<"end_year", "end_month", "end_day",
                  "end_hour", "end_minute", "end_second">>

WrfRunFields == <<"run_days", "run_hours", "run_minutes", "run_seconds">>

SeqRange(q) == {q[i] : i \in 1..Len(q)}

\* the rconfig entries of the WRF Registry that the model's namelists use, with
\* the two entries WrfNamelist adds (_extra_registry_entries)
WrfRegistry ==
    [name \in SeqRange(WrfStartFields) \cup SeqRange(WrfEndFields)
              \cup {"e_we", "e_sn", "parent_id", "parent_grid_ratio", "i_parent_start",
                    "j_parent_start", "gfdda_end_h", "nio_tasks_per_group"}
        |-> RegEntry("integer", "max_domains")]
    @@ [name \in SeqRange(WrfRunFields) \cup {"max_dom", "time_step", "nio_groups"}
        |-> RegEntry("integer", "1")]
    @@ [name \in {"dx", "dy", "diff_6th_factor"} |-> RegEntry("real", "max_domains")]
    @@ [name \in {"input_from_file"} |-> RegEntry("logical", "max_domains")]
    @@ [name \in {"physics_suite"} |-> RegEntry("character", "1")]

\* A namelist as read from a file: a tuple of options in file order, each with
\* its section, its name, its value and whether the value is a list.
Opt(sect, name, islist, val) == [sect |-> sect, name |-> name, islist |-> islist, val |-> val]

DateText(y, mo, d, h, mi, sec) ==
    LET two(n) == IF n < 10 THEN <<"0">> \o NatText(n) ELSE NatText(n)
        four(n) == IF n < 10 THEN <<"0", "0", "0">> \o NatText(n)
                   ELSE IF n < 100 THEN <<"0", "0">> \o NatText(n)
                   ELSE IF n < 1000 THEN <<"0">> \o NatText(n) ELSE NatText(n)
    IN  four(y) \o <<"-">> \o two(mo) \o <<"-">> \o two(d) \o <<"_">>
        \o two(h) \o <<":">> \o two(mi) \o <<":">> \o two(sec)

\* the options of WPS's namelist.wps.all_options that the model's namelists use
AllOptionsNamelist ==
    << Opt("share", "max_dom", FALSE, <<PyInt(2)>>),
       Opt("share", "start_date", TRUE, <<PyStr(DateText(2008, 3, 24, 12, 0, 0)),
                                          PyStr(DateText(2008, 3, 24, 12, 0, 0))>>),
       Opt("share", "end_date", TRUE, <<PyStr(DateText(2008, 3, 24, 18, 0, 0)),
                                        PyStr(DateText(2008, 3, 24, 12, 0, 0))>>),
       Opt("share", "interval_seconds", FALSE, <<PyInt(21600)>>),
       Opt("geogrid", "parent_id", TRUE, <<PyInt(1), PyInt(1)>>),
       Opt("geogrid", "parent_grid_ratio", TRUE, <<PyInt(1), PyInt(3)>>),
       Opt("geogrid", "i_parent_start", TRUE, <<PyInt(1), PyInt(31)>>),
       Opt("geogrid", "j_parent_start", TRUE, <<PyInt(1), PyInt(17)>>),
       Opt("geogrid", "e_we", TRUE, <<PyInt(74), PyInt(112)>>),
       Opt("geogrid", "e_sn", TRUE, <<PyInt(61), PyInt(97)>>),
       Opt("geogrid", "dx", FALSE, <<PyInt(10000)>>),
       Opt("geogrid", "dy", FALSE, <<PyInt(10000)>>),
       Opt("geogrid", "map_proj", FALSE, <<PyStr(<<"l", "a", "m", "b", "e", "r", "t">>)>>),
       Opt("geogrid", "truelat1", FALSE, <<PyFloat(30, 1)>>),
       Opt("geogrid", "truelat2", FALSE, <<PyFloat(60, 1)>>),
       Opt("geogrid", "stand_lon", FALSE, <<PyFloat(-98, 1)>>),
       Opt("geogrid", "geog_data_path", FALSE, <<PyStr(<<"/", "g", "e", "o", "g">>)>>) >>

\* WPSPseudoRegistry._type_overrides
_type_overrides == [name \in {"dx", "dy"} |-> "real"]

\* WPSPseudoRegistry._parse_reg_file: the registry inferred from the reference
\* namelist
PseudoRegistry(all_opts_nl) ==
    LET default_n_dom ==
            (CHOOSE o \in SeqRange(all_opts_nl) : o.sect = "share" /\ o.name = "max_dom").val[1].n
        entry(o) ==
            LET default_val == o.val[1]
                num_entries == IF o.islist
                               THEN (IF Len(o.val) = default_n_dom THEN "max_domains"
                                     ELSE "multiple")
                               ELSE "1"
                type == IF o.name \in DOMAIN _type_overrides THEN _type_overrides[o.name]
                        ELSE CASE default_val.k = "bool" -> "logical"
                               [] default_val.k = "int" -> "integer"
                               [] default_val.k = "float" -> "real"
                               [] default_val.k = "str" -> "character"
            IN  RegEntry(type, num_entries)
    IN  [name \in {o.name : o \in SeqRange(all_opts_nl)} |->
            entry(CHOOSE o \in SeqRange(all_opts_nl) : o.name = name)]

WpsRegistry == PseudoRegistry(AllOptionsNamelist)

\* the registry a namelist of the given program is constructed with
RegistryOf(program) == IF program = "WRF" THEN WrfRegistry ELSE WpsRegistry

(***************************************************************************)
(* Namelist.  A namelist object is a record [program, registry, opts,      *)
(* update_fdda_end]; registry is its copy of the registry (self._registry) *)
(* and opts the tuple of its options in order.  Every namelist of the      *)
(* model holds max_dom in exactly one section.                             *)
(***************************************************************************)
NoSect == "None"

\* an argument that is one value, and one that is a list
Scalar(x) == [islist |-> FALSE, v |-> <<x>>]

List(xs) == [islist |-> TRUE, v |-> xs]

\* index of sectname/optname in opts, 0 when it is not there
OptIdx(nl, sectname, optname) ==
    IF \E i \in 1..Len(nl.opts) : nl.opts[i].sect = sectname /\ nl.opts[i].name = optname
    THEN CHOOSE i \in 1..Len(nl.opts) :
            nl.opts[i].sect = sectname /\ nl.opts[i].name = optname
    ELSE 0

\* self.opts[sectname][optname] = vals
Store(nl, sectname, optname, islist, vals) ==
    [nl EXCEPT !.opts[OptIdx(nl, sectname, optname)] = Opt(sectname, optname, islist, vals)]

\* Namelist.lookup_opt_in_registry: KeyError for a name the registry lacks
InRegistry(nl, optname) == optname \in DOMAIN nl.registry

lookup_opt_in_registry(nl, optname) == nl.registry[optname]

\* Namelist.is_option_per_domain
is_option_per_domain(nl, optname) ==
    lookup_opt_in_registry(nl, optname).num_entries = "max_domains"

\* Namelist.find_opt_section
find_opt_section(nl, optname) ==
    LET found_in == {nl.opts[i].sect : i \in {j \in 1..Len(nl.opts) : nl.opts[j].name = optname}}
    IN  IF Cardinality(found_in) = 1 THEN [err |-> "", sect |-> CHOOSE x \in found_in : TRUE]
        ELSE IF found_in = {} THEN [err |-> "", sect |-> NoSect]
        ELSE [err |-> "NamelistKeyError", sect |-> NoSect]

\* list[:n] that keeps the whole list
KeepAll(q, n) == q

\* list[:n] of Python
SliceTo(q, n) ==
    IF n >= 0 THEN SubSeq(q, 1, IF n < Len(q) THEN n ELSE Len(q))
    ELSE SubSeq(q, 1, IF Len(q) + n > 0 THEN Len(q) + n ELSE 0)

\* list[:1] in the place of list[-1:]
FirstOf(q) == IF q = <<>> THEN <<>> ELSE <<q[1]>>

\* list[-1:] of Python
LastOf(q) == IF q = <<>> THEN <<>> ELSE <<q[Len(q)]>>

RECURSIVE Repeat(_, _)
\* q * n of Python
Repeat(q, n) == IF n <= 0 THEN <<>> ELSE q \o Repeat(q, n - 1)

\* the max_domains property: get_opt_val_no_sect('max_dom', domainnum=1)
max_domains(nl) ==
    LET i == CHOOSE j \in 1..Len(nl.opts) : nl.opts[j].name = "max_dom"
    IN  nl.opts[i].val[1].n

\* the message of an exception: its wording, the numbers it names and the
\* registry type it names
NoMsg == [kind |-> "", args |-> <<>>, type |-> ""]

Msg(kind, args, type) == [kind |-> kind, args |-> args, type |-> type]

\* match_option_length_to_domains trimming to one value less than the domains
MatchTrimShort(nl, optval, error_if_too_long, trim_extra) ==
    LET n_dom == max_domains(nl)
        vals == optval.v
        Return(v) == [err |-> "", msg |-> NoMsg, v |-> v]
    IN  IF Len(vals) < n_dom
        THEN Return(vals \o Repeat(LastOf(vals), n_dom - Len(vals)))
        ELSE IF error_if_too_long /\ Len(vals) > n_dom
        THEN [err |-> "NamelistValueError",
              msg |-> Msg("More values given than domains", <<Len(vals), n_dom>>, ""),
              v |-> vals]
        ELSE IF trim_extra /\ Len(vals) > n_dom THEN Return(SliceTo(vals, n_dom - 1))
        ELSE Return(vals)

\* match_option_length_to_domains padding with the first value, not the last
MatchPadFirst(nl, optval, error_if_too_long, trim_extra) ==
    LET n_dom == max_domains(nl)
        vals == optval.v
        Return(v) == [err |-> "", msg |-> NoMsg, v |-> v]
    IN  IF Len(vals) < n_dom
        THEN Return(vals \o Repeat(SliceTo(vals, 1), n_dom - Len(vals)))
        ELSE IF error_if_too_long /\ Len(vals) > n_dom
        THEN [err |-> "NamelistValueError",
              msg |-> Msg("More values given than domains", <<Len(vals), n_dom>>, ""),
              v |-> vals]
        ELSE IF trim_extra THEN Return(SliceTo(vals, n_dom))
        ELSE Return(vals)

\* Namelist.match_option_length_to_domains: [err, msg, v]
match_option_length_to_domains(nl, optval, error_if_too_long, trim_extra) ==
    LET n_dom == max_domains(nl)
        vals == optval.v
        Return(v) == [err |-> "", msg |-> NoMsg, v |-> v]
    IN  IF Len(vals) < n_dom
        THEN Return(vals \o Repeat(LastOf(vals), n_dom - Len(vals)))
        ELSE IF error_if_too_long /\ Len(vals) > n_dom
        THEN [err |-> "NamelistValueError",
              msg |-> Msg("More values given than domains", <<Len(vals), n_dom>>, ""),
              v |-> vals]
        ELSE IF trim_extra THEN Return(SliceTo(vals, n_dom))
        ELSE Return(vals)

RECURSIVE ConvertAll(_, _)
\* [_type_conversions[reg_type](v) for v in vals]: the first failure is raised
ConvertAll(reg_type, vals) ==
    IF vals = <<>> THEN [err |-> "", v |-> <<>>]
    ELSE LET c == _type_conversions(reg_type, Head(vals))
         IN  IF c.err # "" THEN [err |-> c.err, v |-> <<>>]
             ELSE LET rest == ConvertAll(reg_type, Tail(vals))
                  IN  IF rest.err # "" THEN rest
                      ELSE [err |-> "", v |-> <<c.v>> \o rest.v]

\* the end of _conform_option_value refusing too few values only
ConformTooFewOnly(conv, n_domains) ==
    IF conv.err # "" THEN conv
    ELSE IF Len(conv.v) < n_domains THEN [err |-> "NamelistFormatError", v |-> <<>>]
    ELSE conv

\* the end of _conform_option_value: the list converted must hold n_domains
\* values
ConformLength(conv, n_domains) ==
    IF conv.err # "" THEN conv
    ELSE IF Len(conv.v) < n_domains THEN [err |-> "NamelistFormatError", v |-> <<>>]
    ELSE IF Len(conv.v) > n_domains THEN [err |-> "NamelistFormatError", v |-> <<>>]
    ELSE conv

\* the middle of _conform_option_value: the values are converted to the
\* registry type, or checked to be of it
ConformTypes(reg_type, vals, convert_type) ==
    IF convert_type THEN ConvertAll(reg_type, vals)
    ELSE IF \E i \in 1..Len(vals) : ~_type_mappings(reg_type, vals[i])
    THEN [err |-> "NamelistTypeError", v |-> <<>>]
    ELSE [err |-> "", v |-> vals]

\* the start of _conform_option_value: the list of values, resized or not
ConformList(nl, vals_in, is_per_domain, resize) ==
    IF vals_in.islist
    THEN (IF resize /\ is_per_domain
          THEN match_option_length_to_domains(nl, vals_in, FALSE, TRUE).v
          ELSE vals_in.v)
    ELSE IF is_per_domain
    THEN match_option_length_to_domains(nl, vals_in, FALSE, TRUE).v
    ELSE vals_in.v

\* _conform_option_value without the check of the number of values
ConformAnyLength(nl, optname, vals_in, convert_type, resize) ==
    IF ~InRegistry(nl, optname) THEN [err |-> "KeyError", v |-> <<>>]
    ELSE ConformTypes(lookup_opt_in_registry(nl, optname).type,
                      ConformList(nl, vals_in, is_option_per_domain(nl, optname), resize),
                      convert_type)

\* Namelist._conform_option_value: [err, v]
_conform_option_value(nl, optname, vals_in, convert_type, resize) ==
    IF ~InRegistry(nl, optname) THEN [err |-> "KeyError", v |-> <<>>]
    ELSE ConformLength(ConformTypes(lookup_opt_in_registry(nl, optname).type,
                                    ConformList(nl, vals_in,
                                                is_option_per_domain(nl, optname), resize),
                                    convert_type),
                       IF is_option_per_domain(nl, optname) THEN max_domains(nl) ELSE 1)

\* the callbacks attribute of WrfNamelist and of WpsNamelist
callbacks(nl) == IF nl.program \in {"WRF", "WPS"} THEN {"max_dom"} ELSE {}

RECURSIVE set_opt_val(_, _, _, _, _, _)
RECURSIVE UpdateOptDomainsFrom(_, _, _)

\* Namelist.set_opt_val_no_sect: [err, nl, v]
set_opt_val_no_sect(nl, optname, vals_in, resize_if_needed, convert_type_if_needed) ==
    LET sect == find_opt_section(nl, optname)
    IN  IF sect.err # "" THEN [err |-> sect.err, nl |-> nl, v |-> <<>>]
        ELSE IF sect.sect = NoSect THEN [err |-> "NamelistKeyError", nl |-> nl, v |-> <<>>]
        ELSE set_opt_val(nl, sect.sect, optname, vals_in, resize_if_needed, convert_type_if_needed)

\* _update_opt_domains(namelist, trim_extra): [err, nl]
_update_opt_domains(nl, trim_extra) == UpdateOptDomainsFrom(nl, 1, trim_extra)

\* the loop of _update_opt_domains after set_opt_val_no_sect returned r for
\* the i-th option
UpdateOptDomainsRest(r, i, trim_extra) ==
    IF r.err # "" THEN [err |-> r.err, nl |-> r.nl]
    ELSE UpdateOptDomainsFrom(r.nl, i + 1, trim_extra)

\* the loop of _update_opt_domains from the i-th option on.  A list shorter
\* than max_dom is extended in place (optval += ...), so the namelist holds
\* the extended list before set_opt_val_no_sect is called.
UpdateOptDomainsFrom(nl, i, trim_extra) ==
    IF i > Len(nl.opts) THEN [err |-> "", nl |-> nl]
    ELSE LET o == nl.opts[i]
             m == match_option_length_to_domains(nl, List(o.val), FALSE, trim_extra)
             nl1 == IF o.islist /\ Len(o.val) < max_domains(nl)
                    THEN [nl EXCEPT !.opts[i].val = m.v] ELSE nl
         IN  IF ~InRegistry(nl, o.name) THEN UpdateOptDomainsFrom(nl, i + 1, trim_extra)
             ELSE IF ~is_option_per_domain(nl, o.name)
             THEN UpdateOptDomainsFrom(nl, i + 1, trim_extra)
             ELSE UpdateOptDomainsRest(set_opt_val_no_sect(nl1, o.name, List(m.v), FALSE, FALSE),
                                       i, trim_extra)

\* the return of set_opt_val after the callback of the option ran
SetOptValReturn(cb, vals) == [err |-> cb.err, nl |-> cb.nl, v |-> vals]

\* set_opt_val after _conform_option_value returned c.  The value is stored
\* before the callback of the option runs, so a callback that raises leaves it
\* stored.
SetOptValStore(nl, sectname, optname, c) ==
    IF c.err # "" THEN [err |-> c.err, nl |-> nl, v |-> <<>>]
    ELSE IF optname \in callbacks(nl)
    THEN SetOptValReturn(_update_opt_domains(Store(nl, sectname, optname, TRUE, c.v), TRUE), c.v)
    ELSE [err |-> "", nl |-> Store(nl, sectname, optname, TRUE, c.v), v |-> c.v]

\* Namelist.set_opt_val: [err, nl, v]
set_opt_val(nl, sectname, optname, vals_in, resize_if_needed, convert_type_if_needed) ==
    IF OptIdx(nl, sectname, optname) = 0 THEN [err |-> "NamelistKeyError", nl |-> nl, v |-> <<>>]
    ELSE SetOptValStore(nl, sectname, optname,
                        _conform_option_value(nl, optname, vals_in, convert_type_if_needed,
                                              resize_if_needed))

RECURSIVE CorrectOptTypesFrom(_, _)

\* the loop of _correct_opt_types after _conform_option_value returned c for
\* the i-th option
CorrectOptTypesRest(nl, i, c) ==
    IF c.err # "" THEN [err |-> c.err, nl |-> nl]
    ELSE CorrectOptTypesFrom([nl EXCEPT !.opts[i] = Opt(@.sect, @.name, TRUE, c.v)], i + 1)

\* _correct_opt_types from the i-th option on: [err, nl]
CorrectOptTypesFrom(nl, i) ==
    IF i > Len(nl.opts) THEN [err |-> "", nl |-> nl]
    ELSE CorrectOptTypesRest(nl, i,
                             _conform_option_value(nl, nl.opts[i].name,
                                                   [islist |-> nl.opts[i].islist,
                                                    v |-> nl.opts[i].val],
                                                   TRUE, TRUE))

\* _correct_opt_types(namelist)
_correct_opt_types(nl) == CorrectOptTypesFrom(nl, 1)

\* Namelist.get_opt_val: [err, v, nl].  domainnum 0 stands for None; with a
\* domainnum the result is the 1-element list of the value returned.  nl is
\* the namelist afterwards: match_n_domains extends a stored list that is
\* shorter than max_dom in place.
get_opt_val(nl, sectname, optname, domainnum, match_n_domains) ==
    IF \A i \in 1..Len(nl.opts) : nl.opts[i].sect # sectname
    THEN [err |-> "KeyError", v |-> <<>>, nl |-> nl]
    ELSE IF OptIdx(nl, sectname, optname) = 0 THEN [err |-> "KeyError", v |-> <<>>, nl |-> nl]
    ELSE LET i == OptIdx(nl, sectname, optname)
             stored == nl.opts[i]
             do_match == match_n_domains /\ InRegistry(nl, optname)
                         /\ is_option_per_domain(nl, optname)
             val == IF do_match
                    THEN match_option_length_to_domains(nl, List(stored.val), FALSE, TRUE).v
                    ELSE stored.val
             nl1 == IF do_match /\ stored.islist /\ Len(stored.val) < max_domains(nl)
                    THEN [nl EXCEPT !.opts[i].val = val] ELSE nl
             ind == domainnum - 1
         IN  IF match_n_domains /\ ~InRegistry(nl, optname)
             THEN [err |-> "KeyError", v |-> <<>>, nl |-> nl]
             ELSE IF domainnum = 0 THEN [err |-> "", v |-> val, nl |-> nl1]
             ELSE IF ind > Len(val) THEN [err |-> "NamelistError", v |-> <<>>, nl |-> nl1]
             ELSE IF ind = Len(val) THEN [err |-> "IndexError", v |-> <<>>, nl |-> nl1]
             ELSE [err |-> "", v |-> <<val[ind + 1]>>, nl |-> nl1]

\* Namelist.get_opt_val_no_sect
get_opt_val_no_sect(nl, optname, domainnum, match_n_domains) ==
    LET sect == find_opt_section(nl, optname)
    IN  IF sect.err # "" THEN [err |-> sect.err, v |-> <<>>, nl |-> nl]
        ELSE get_opt_val(nl, sect.sect, optname, domainnum, match_n_domains)

\* Namelist.IsOptInNamelist
IsOptInNamelist(nl, optname) == \E i \in 1..Len(nl.opts) : nl.opts[i].name = optname

(***************************************************************************)
(* datetime.  A datetime is [year, month, day, hour, minute, second], a    *)
(* timedelta [days, seconds] with 0 <= seconds < 86400.                    *)
(***************************************************************************)
DateTime(y, mo, d, h, mi, sec) ==
    [year |-> y, month |-> mo, day |-> d, hour |-> h, minute |-> mi, second |-> sec]

TimeDelta(days, seconds) == [days |-> days + (seconds \div 86400), seconds |-> seconds % 86400]

IsLeap(y) == y % 4 = 0 /\ (y % 100 # 0 \/ y % 400 = 0)

DaysInMonth(y, m) ==
    IF m = 2 THEN (IF IsLeap(y) THEN 29 ELSE 28)
    ELSE IF m \in {4, 6, 9, 11} THEN 30 ELSE 31

DaysInYear(y) == IF IsLeap(y) THEN 366 ELSE 365

\* can datetime(y, mo, d, h, mi, sec) be built
ValidDateTime(x) ==
    /\ x.year \in 1..9999 /\ x.month \in 1..12
    /\ x.day >= 1 /\ x.day <= DaysInMonth(x.year, x.month)
    /\ x.hour \in 0..23 /\ x.minute \in 0..59 /\ x.second \in 0..59

DaysBeforeYear(y) ==
    LET p == y - 1 IN p * 365 + (p \div 4) - (p \div 100) + (p \div 400)

RECURSIVE DaysBeforeMonth(_, _)
DaysBeforeMonth(y, m) == IF m = 1 THEN 0 ELSE DaysBeforeMonth(y, m - 1) + DaysInMonth(y, m - 1)

\* date.toordinal()
ToOrdinal(x) == DaysBeforeYear(x.year) + DaysBeforeMonth(x.year, x.month) + x.day

RECURSIVE YearOfOrdinal(_, _)
YearOfOrdinal(n, y) == IF n > DaysBeforeYear(y + 1) THEN YearOfOrdinal(n, y + 1) ELSE y

RECURSIVE MonthOfDay(_, _, _)
MonthOfDay(y, n, m) == IF n > DaysBeforeMonth(y, m) + DaysInMonth(y, m)
                       THEN MonthOfDay(y, n, m + 1) ELSE m

\* datetime.fromordinal(n) at second-of-day sec
FromOrdinal(n, sec) ==
    LET y == YearOfOrdinal(n, (n \div 366) + 1)
        doy == n - DaysBeforeYear(y)
        m == MonthOfDay(y, doy, 1)
    IN  DateTime(y, m, doy - DaysBeforeMonth(y, m), sec \div 3600, (sec % 3600) \div 60, sec % 60)

SecondOfDay(x) == x.hour * 3600 + x.minute * 60 + x.second

\* datetime + timedelta
AddDelta(x, td) ==
    LET total == SecondOfDay(x) + td.seconds
    IN  FromOrdinal(ToOrdinal(x) + td.days + (total \div 86400), total % 86400)

\* datetime - datetime
DiffDates(a, b) == TimeDelta(ToOrdinal(a) - ToOrdinal(b), SecondOfDay(a) - SecondOfDay(b))

\* a decomposition that leaves the minutes of the hours in run_minutes
TimedeltaHoursAndAllMinutes(td) ==
    LET seconds == td.seconds
    IN  <<seconds \div 3600, seconds \div 60, seconds % 60>>

\* Namelist.TimedeltaHMS
TimedeltaHMS(td) ==
    LET seconds == td.seconds
    IN  <<seconds \div 3600, (seconds % 3600) \div 60, (seconds % 3600) % 60>>

\* The arguments set_time_period takes for a bound: None, a datetime, a date,
\* a time or a timedelta.
NoDate == DateTime(1, 1, 1, 0, 0, 0)

NoDelta == TimeDelta(0, 0)

ArgNone == [t |-> "None", dt |-> NoDate, td |-> NoDelta]

ArgDateTime(x) == [t |-> "datetime", dt |-> x, td |-> NoDelta]

ArgDate(y, mo, d) == [t |-> "date", dt |-> DateTime(y, mo, d, 0, 0, 0), td |-> NoDelta]

ArgTime(h, mi, sec) == [t |-> "time", dt |-> DateTime(1, 1, 1, h, mi, sec), td |-> NoDelta]

ArgDelta(td) == [t |-> "timedelta", dt |-> NoDate, td |-> td]

(***************************************************************************)
(* WrfNamelist and WpsNamelist.                                            *)
(***************************************************************************)
RECURSIVE SetScalars(_, _)

\* the run of set_opt_val calls after the first returned r
SetScalarsRest(r, calls) ==
    IF r.err # "" THEN [err |-> r.err, nl |-> r.nl]
    ELSE SetScalars(r.nl, Tail(calls))

\* a run of self.set_opt_val(sect, name, value) calls, each with one value and
\* the default flags; stops at the first that raises: [err, nl]
SetScalars(nl, calls) ==
    IF calls = <<>> THEN [err |-> "", nl |-> nl]
    ELSE SetScalarsRest(set_opt_val(nl, Head(calls)[1], Head(calls)[2], Scalar(Head(calls)[3]),
                                    FALSE, FALSE),
                        calls)

RECURSIVE GetInts(_, _, _)

\* int(g) for the value g that get_opt_val returned for the first name, then
\* the other names
GetIntsRest(nl, sectname, names, g) ==
    IF g.err # "" THEN [err |-> g.err, v |-> <<>>]
    ELSE LET c == ToInt(g.v[1])
             rest == GetInts(nl, sectname, Tail(names))
         IN  IF c.err # "" THEN [err |-> c.err, v |-> <<>>]
             ELSE IF rest.err # "" THEN rest
             ELSE [err |-> "", v |-> <<c.v.n>> \o rest.v]

\* int(self.get_opt_val(sect, name, domainnum=1)) for each name: [err, v]
GetInts(nl, sectname, names) ==
    IF names = <<>> THEN [err |-> "", v |-> <<>>]
    ELSE GetIntsRest(nl, sectname, names, get_opt_val(nl, sectname, Head(names), 1, FALSE))

\* the datetimes WrfNamelist.get_time_period builds from the start fields s
\* and the end fields e
WrfPeriod(s, e) ==
    LET sd == DateTime(s.v[1], s.v[2], s.v[3], s.v[4], s.v[5], s.v[6])
        ed == DateTime(e.v[1], e.v[2], e.v[3], e.v[4], e.v[5], e.v[6])
    IN  IF s.err # "" THEN [err |-> s.err, start |-> NoDate, end |-> NoDate]
        ELSE IF e.err # "" THEN [err |-> e.err, start |-> NoDate, end |-> NoDate]
        ELSE IF ~ValidDateTime(sd) \/ ~ValidDateTime(ed)
        THEN [err |-> "ValueError", start |-> NoDate, end |-> NoDate]
        ELSE [err |-> "", start |-> sd, end |-> ed]

\* WrfNamelist.get_time_period: [err, start, end]
WrfGetTimePeriod(nl) ==
    WrfPeriod(GetInts(nl, "time_control", WrfStartFields),
              GetInts(nl, "time_control", WrfEndFields))

\* GetRunTime adds the run fields as floats, rdays + rhrs/24.0 +
\* rmins/(24.0*60.0) + rsecs/(24.0*60.0*60.0), and multiplies by 24.0.  The
\* double this gives is the number of hours but for a rounding error, which
\* matters where the number of hours is whole: for these run_days and
\* run_hours with no minutes and seconds the double lies just above it,
RoundedAbove == {<<-2, 17>>, <<-2, 20>>, <<-2, 23>>, <<-1, 10>>, <<-1, 17>>, <<-1, 20>>, <<-1, 23>>}

\* for these just below it, and for every other whole number of hours from
\* run_days -4000 to 4000 it is exact
RoundedBelow == {<<-2, 19>>, <<-2, 22>>, <<-1, 11>>, <<-1, 19>>, <<-1, 22>>}

\* the sign of the rounding error of GetRunTime for the run fields v, where
\* it has one that matters
FloatError(v) ==
    IF v[3] # 0 \/ v[4] # 0 THEN 0
    ELSE IF <<v[1], v[2]>> \in RoundedAbove THEN 1
    ELSE IF <<v[1], v[2]>> \in RoundedBelow THEN -1
    ELSE 0

\* the seconds of the run fields r, and the sign of the rounding error of
\* GetRunTime for them
RunSeconds(r) ==
    IF r.err # "" THEN [err |-> r.err, secs |-> 0, above |-> 0]
    ELSE [err |-> "", secs |-> r.v[1] * 86400 + r.v[2] * 3600 + r.v[3] * 60 + r.v[4],
          above |-> FloatError(r.v)]

\* the run length of WrfNamelist.GetRunTime in seconds: [err, secs]
RunTimeSeconds(nl) == RunSeconds(GetInts(nl, "time_control", WrfRunFields))

\* math.ceil(GetRunTime(runtime_unit="hours"))
CeilHours(rt) == ((rt.secs + 3599) \div 3600) + (IF rt.above > 0 THEN 1 ELSE 0)

\* the bound set_time_period works with: [err, dt].  None keeps the current
\* bound, a timedelta shifts it, a date is taken at midnight; anything else
\* but a datetime is a TypeError.
ResolveBound(arg, curr) ==
    CASE arg.t = "None" -> [err |-> "", dt |-> curr]
      [] arg.t = "timedelta" -> [err |-> "", dt |-> AddDelta(curr, arg.td)]
      [] arg.t = "date" -> [err |-> "", dt |-> DateTime(arg.dt.year, arg.dt.month, arg.dt.day, 0, 0, 0)]
      [] arg.t = "datetime" -> [err |-> "", dt |-> arg.dt]
      [] OTHER -> [err |-> "TypeError", dt |-> NoDate]

\* the end of WrfNamelist.set_time_period: gfdda_end_h is set from the run
\* time rt the namelist has after the dates were set
WrfSetFddaEnd(dates, rt) ==
    IF rt.err # "" THEN [err |-> rt.err, nl |-> dates.nl]
    ELSE SetScalars(dates.nl, << <<"fdda", "gfdda_end_h", PyInt(CeilHours(rt))>> >>)

\* WrfNamelist.set_time_period after the date and run fields were set
WrfSetFdda(dates) ==
    IF dates.err # "" THEN dates
    ELSE IF dates.nl.update_fdda_end THEN WrfSetFddaEnd(dates, RunTimeSeconds(dates.nl))
    ELSE dates

\* WrfNamelist.set_time_period from the two datetimes on: the date fields and
\* the run fields are set
WrfSetFields(nl, sd, ed) ==
    LET run_td == DiffDates(ed, sd)
        hms == TimedeltaHMS(run_td)
    IN  WrfSetFdda(SetScalars(nl,
            << <<"time_control", "start_year", PyInt(sd.year)>>,
               <<"time_control", "start_month", PyInt(sd.month)>>,
               <<"time_control", "start_day", PyInt(sd.day)>>,
               <<"time_control", "start_hour", PyInt(sd.hour)>>,
               <<"time_control", "start_minute", PyInt(sd.minute)>>,
               <<"time_control", "start_second", PyInt(sd.second)>>,
               <<"time_control", "end_year", PyInt(ed.year)>>,
               <<"time_control", "end_month", PyInt(ed.month)>>,
               <<"time_control", "end_day", PyInt(ed.day)>>,
               <<"time_control", "end_hour", PyInt(ed.hour)>>,
               <<"time_control", "end_minute", PyInt(ed.minute)>>,
               <<"time_control", "end_second", PyInt(ed.second)>>,
               <<"time_control", "run_days", PyInt(run_td.days)>>,
               <<"time_control", "run_hours", PyInt(hms[1])>>,
               <<"time_control", "run_minutes", PyInt(hms[2])>>,
               <<"time_control", "run_seconds", PyInt(hms[3])>> >>))

\* WrfNamelist.set_time_period with the two bounds resolved
WrfSetBounds(nl, sd, ed) ==
    IF sd.err # "" THEN [err |-> sd.err, nl |-> nl]
    ELSE IF ed.err # "" THEN [err |-> ed.err, nl |-> nl]
    ELSE WrfSetFields(nl, sd.dt, ed.dt)

\* WrfNamelist.set_time_period after get_time_period returned curr
WrfSetFrom(nl, start_date, end_date, curr) ==
    IF curr.err # "" THEN [err |-> curr.err, nl |-> nl]
    ELSE WrfSetBounds(nl, ResolveBound(start_date, curr.start),
                      ResolveBound(end_date, curr.end))

\* WrfNamelist.set_time_period: [err, nl]
WrfSetTimePeriod(nl, start_date, end_date) ==
    WrfSetFrom(nl, start_date, end_date, WrfGetTimePeriod(nl))

\* WpsNamelist.ConvertDate: [err, dt]
ConvertDate(date_in) ==
    LET in_split == Split(date_in, "_")
        date_text == Split(in_split[1], "-")
        time_text == IF Len(in_split) > 1 THEN Split(in_split[2], ":") ELSE <<>>
        unquote(q) == [i \in 1..Len(q) |-> RemoveChar(q[i], "'")]
        dq == unquote(date_text)
        tq == unquote(time_text)
        bad(q) == \E i \in 1..Len(q) : ~IntTextOk(q[i])
        x == DateTime(IntTextVal(dq[1]), IntTextVal(dq[2]), IntTextVal(dq[3]),
                      IF Len(in_split) > 1 THEN IntTextVal(tq[1]) ELSE 0,
                      IF Len(in_split) > 1 THEN IntTextVal(tq[2]) ELSE 0,
                      IF Len(in_split) > 1 THEN IntTextVal(tq[3]) ELSE 0)
    IN  IF bad(dq) \/ bad(tq) THEN [err |-> "ValueError", dt |-> NoDate]
        ELSE IF Len(dq) < 3 \/ (Len(in_split) > 1 /\ Len(tq) < 3)
        THEN [err |-> "IndexError", dt |-> NoDate]
        ELSE IF ~ValidDateTime(x) THEN [err |-> "ValueError", dt |-> NoDate]
        ELSE [err |-> "", dt |-> x]

\* the result of WpsNamelist.get_time_period from the two dates converted
WpsPeriod(sd, ed) ==
    IF sd.err # "" THEN [err |-> sd.err, start |-> NoDate, end |-> NoDate]
    ELSE IF ed.err # "" THEN [err |-> ed.err, start |-> NoDate, end |-> NoDate]
    ELSE [err |-> "", start |-> sd.dt, end |-> ed.dt]

\* WpsNamelist.get_time_period after start_date and end_date were read
WpsConvertDates(s, e) ==
    IF s.err # "" THEN [err |-> s.err, start |-> NoDate, end |-> NoDate]
    ELSE IF e.err # "" THEN [err |-> e.err, start |-> NoDate, end |-> NoDate]
    ELSE WpsPeriod(ConvertDate(s.v[1].s), ConvertDate(e.v[1].s))

\* WpsNamelist.get_time_period: [err, start, end]
WpsGetTimePeriod(nl) ==
    WpsConvertDates(get_opt_val_no_sect(nl, "start_date", 1, FALSE),
                    get_opt_val_no_sect(nl, "end_date", 1, FALSE))

\* the "{:04}-{:02}-{:02}_{:02}:{:02}:{:02}" string of a datetime
FormatDate(x) == DateText(x.year, x.month, x.day, x.hour, x.minute, x.second)

\* WpsNamelist.set_time_period with the two bounds resolved
WpsSetBounds(nl, sd, ed) ==
    IF sd.err # "" THEN [err |-> sd.err, nl |-> nl]
    ELSE IF ed.err # "" THEN [err |-> ed.err, nl |-> nl]
    ELSE SetScalars(nl, << <<"share", "start_date", PyStr(FormatDate(sd.dt))>>,
                           <<"share", "end_date", PyStr(FormatDate(ed.dt))>> >>)

\* WpsNamelist.set_time_period after get_time_period returned curr
WpsSetFrom(nl, start_date, end_date, curr) ==
    IF curr.err # "" THEN [err |-> curr.err, nl |-> nl]
    ELSE WpsSetBounds(nl, ResolveBound(start_date, curr.start),
                      ResolveBound(end_date, curr.end))

\* WpsNamelist.set_time_period: [err, nl]
WpsSetTimePeriod(nl, start_date, end_date) ==
    WpsSetFrom(nl, start_date, end_date, WpsGetTimePeriod(nl))

\* get_time_period and set_time_period of the namelist's class
get_time_period(nl) == IF nl.program = "WRF" THEN WrfGetTimePeriod(nl) ELSE WpsGetTimePeriod(nl)

set_time_period(nl, start_date, end_date) ==
    IF nl.program = "WRF" THEN WrfSetTimePeriod(nl, start_date, end_date)
    ELSE WpsSetTimePeriod(nl, start_date, end_date)

\* start_date + run_time of Namelist.set_run_time.  It follows Python: a date
\* plus a timedelta is a date (the seconds of the timedelta are dropped), a
\* timedelta plus a timedelta a timedelta.
RunEnd(sd, run_time) ==
    LET moved == FromOrdinal(ToOrdinal(sd.dt) + run_time.days, 0)
    IN  CASE sd.t = "datetime" -> ArgDateTime(AddDelta(sd.dt, run_time))
          [] sd.t = "date" -> ArgDate(moved.year, moved.month, moved.day)
          [] sd.t = "timedelta" ->
                ArgDelta(TimeDelta(sd.td.days + run_time.days,
                                   sd.td.seconds + run_time.seconds))
          [] OTHER -> ArgNone

\* Namelist.set_run_time from the start date sd on; a time cannot be added to
SetRunTimeFrom(nl, run_time, sd) ==
    IF sd.t = "time" THEN [err |-> "TypeError", nl |-> nl]
    ELSE set_time_period(nl, sd, RunEnd(sd, run_time))

\* Namelist.set_run_time with the current period curr, which is read when no
\* start date is given
SetRunTimeCurrent(nl, run_time, start_date, curr) ==
    IF start_date.t = "None" /\ curr.err # "" THEN [err |-> curr.err, nl |-> nl]
    ELSE SetRunTimeFrom(nl, run_time,
                        IF start_date.t = "None" THEN ArgDateTime(curr.start) ELSE start_date)

\* Namelist.set_run_time: [err, nl]; run_time is a timedelta
set_run_time(nl, run_time, start_date) ==
    SetRunTimeCurrent(nl, run_time, start_date, get_time_period(nl))

\* the rest of WrfNamelist.__init__: update_fdda_end says whether gfdda_end_h
\* (g) is within an hour of the run time (rt)
InitFddaEnd(nl0, nl, rt, g) ==
    LET gf == ToFloat(g.v[1])
    IN  IF rt.err # "" THEN [err |-> rt.err, nl |-> nl0]
        ELSE IF g.err # "" THEN [err |-> g.err, nl |-> nl0]
        ELSE IF gf.err # "" THEN [err |-> gf.err, nl |-> nl0]
        ELSE [err |-> "",
              nl |-> [nl EXCEPT !.update_fdda_end =
                         LET diff == rt.secs * gf.v.d - 3600 * gf.v.n
                             hour == 3600 * gf.v.d
                         IN  /\ diff < hour \/ (diff = hour /\ rt.above < 0)
                             /\ diff > 0 - hour \/ (diff = 0 - hour /\ rt.above > 0)]]

\* Namelist.__init__ after _update_opt_domains returned u
InitUpdated(program, nl0, u) ==
    IF u.err # "" THEN [err |-> u.err, nl |-> nl0]
    ELSE IF program = "WRF" /\ IsOptInNamelist(u.nl, "gfdda_end_h")
    THEN InitFddaEnd(nl0, u.nl, RunTimeSeconds(u.nl),
                     get_opt_val(u.nl, "fdda", "gfdda_end_h", 1, FALSE))
    ELSE [err |-> "", nl |-> u.nl]

\* Namelist.__init__ after _correct_opt_types returned c
InitCorrected(program, nl0, c) ==
    IF c.err # "" THEN [err |-> c.err, nl |-> nl0]
    ELSE InitUpdated(program, nl0, _update_opt_domains(c.nl, TRUE))

\* the namelist as Namelist.__init__ has it before the startup_fxns run: its
\* copy of the registry and the options of the file
ReadNamelist(program, file_opts) ==
    [program |-> program, registry |-> RegistryOf(program), opts |-> file_opts,
     update_fdda_end |-> FALSE]

\* Namelist.__init__ with the startup_fxns of WrfNamelist and WpsNamelist
\* (_correct_opt_types, then _update_opt_domains), and the rest of
\* WrfNamelist.__init__, which decides update_fdda_end: [err, nl]
NewNamelist(program, file_opts) ==
    InitCorrected(program, ReadNamelist(program, file_opts),
                  _correct_opt_types(ReadNamelist(program, file_opts)))

(***************************************************************************)
(* NamelistContainer.  A container is the record [wrf, wps, shared] of its *)
(* two namelists and of the names of the options whose value is one list   *)
(* object held by both: a list that grows in place in one namelist grows   *)
(* in the other.                                                           *)
(***************************************************************************)
domain_opts ==
    <<"max_dom", "parent_id", "parent_grid_ratio", "i_parent_start", "j_parent_start",
      "e_we", "e_sn", "dx", "dy">>

\* date_opts without the two dates of the WPS namelist
DateOptsOfWrf ==
    {"run_days", "run_hours", "run_minutes", "run_seconds", "start_year", "start_month",
     "start_day", "start_hour", "start_minute", "start_second", "end_year", "end_month",
     "end_day", "end_hour", "end_minute", "end_second"}

date_opts ==
    {"run_days", "run_hours", "run_minutes", "run_seconds", "start_year", "start_month",
     "start_day", "start_hour", "start_minute", "start_second", "end_year", "end_month",
     "end_day", "end_hour", "end_minute", "end_second", "start_date", "end_date"}

sync_options == <<"max_dom">> \o domain_opts

\* the keys of _sync_prep_fxns
_sync_prep_fxns == {"dx", "dy"}

\* list[i] of Python for a 0-based i that may be negative: [err, v]
PyIndex(q, i) ==
    IF 0 <= i /\ i < Len(q) THEN [err |-> "", v |-> q[i + 1]]
    ELSE IF i < 0 /\ 0 - i <= Len(q) THEN [err |-> "", v |-> q[Len(q) + i + 1]]
    ELSE [err |-> "IndexError", v |-> PyNone]

\* _wrf2wps_dxdy: the value of the coarse domain
_wrf2wps_dxdy(dxy, nl) == SliceTo(dxy, 1)

\* x / y of Python on two numbers: [err, v]
TrueDiv(x, y) ==
    IF y.n = 0 THEN ConvErr("ZeroDivisionError")
    ELSE IF y.n > 0 THEN Conv(PyFloat(x.n * y.d, x.d * y.n))
    ELSE Conv(PyFloat(0 - x.n * y.d, x.d * (0 - y.n)))

RECURSIVE set_domain_dxy(_, _, _, _, _)
\* set_domain_dxy of _wps2wrf_dxdy, on dxy_out and domain_trail: [err, out,
\* traced].  traced: pdb.set_trace() was reached; out and err are what the
\* call gives when the debugger is left with "continue".
set_domain_dxy(dxy_out, domain_trail, domain_num, parent_ids, grid_ratios) ==
    LET domain_ind == domain_num - 1
        mine == PyIndex(dxy_out, domain_ind)
        this_parent == PyIndex(parent_ids, domain_ind)
        this_parent_ind == this_parent.v.n - 1
        parent_dxy == PyIndex(dxy_out, this_parent_ind)
        sub == IF parent_dxy.v.n < 0
               THEN set_domain_dxy(dxy_out, Append(domain_trail, domain_num), this_parent.v.n,
                                   parent_ids, grid_ratios)
               ELSE [err |-> "", out |-> dxy_out, traced |-> FALSE]
        my_ratio == PyIndex(grid_ratios, domain_ind)
        quotient == TrueDiv(PyIndex(sub.out, this_parent_ind).v, my_ratio.v)
        at == IF domain_ind >= 0 THEN domain_ind + 1 ELSE Len(dxy_out) + domain_ind + 1
        Before(err) == [err |-> err, out |-> dxy_out, traced |-> FALSE]
        After(err, out) == [err |-> err, out |-> out, traced |-> parent_dxy.v.n < 0]
    IN  IF mine.err # "" THEN Before(mine.err)
        ELSE IF mine.v.n >= 0 THEN Before("")
        ELSE IF \E i \in 1..Len(domain_trail) : domain_trail[i] = domain_num
        THEN Before("NamelistRuntimeError")
        ELSE IF this_parent.err # "" THEN Before(this_parent.err)
        ELSE IF ~IsNumber(this_parent.v) THEN Before("TypeError")
        ELSE IF parent_dxy.err # "" THEN Before(parent_dxy.err)
        ELSE IF sub.err # "" THEN After(sub.err, sub.out)
        ELSE IF my_ratio.err # "" THEN After(my_ratio.err, sub.out)
        ELSE IF ~IsNumber(my_ratio.v) THEN After("TypeError", sub.out)
        ELSE IF quotient.err # "" THEN After(quotient.err, sub.out)
        ELSE After("", [sub.out EXCEPT ![at] = quotient.v])

RECURSIVE Wps2WrfFrom(_, _, _, _)

\* the loop of _wps2wrf_dxdy after set_domain_dxy returned r for domain i
Wps2WrfRest(r, i, parent_ids, grid_ratios) ==
    IF r.err # "" THEN [err |-> r.err, v |-> r.out, traced |-> r.traced]
    ELSE [Wps2WrfFrom(r.out, i + 1, parent_ids, grid_ratios) EXCEPT !.traced = @ \/ r.traced]

\* the loop "for i in range(n_dom): set_domain_dxy(i+1)" from domain i on
Wps2WrfFrom(dxy_out, i, parent_ids, grid_ratios) ==
    IF i > Len(dxy_out) THEN [err |-> "", v |-> dxy_out, traced |-> FALSE]
    ELSE Wps2WrfRest(set_domain_dxy(dxy_out, <<>>, i, parent_ids, grid_ratios), i,
                     parent_ids, grid_ratios)

\* _wps2wrf_dxdy after parent_id and parent_grid_ratio were read; first is
\* float(dxy[0]): [err, v, traced]
Wps2WrfDomains(n_dom, parent_ids, grid_ratios, first) ==
    LET Raised(err) == [err |-> err, v |-> <<>>, traced |-> FALSE]
    IN  IF parent_ids.err # "" THEN Raised(parent_ids.err)
        ELSE IF grid_ratios.err # "" THEN Raised(grid_ratios.err)
        ELSE IF first.err # "" THEN Raised(first.err)
        ELSE IF n_dom < 1 THEN Raised("IndexError")
        ELSE Wps2WrfFrom([i \in 1..n_dom |-> IF i = 1 THEN first.v ELSE PyInt(0 - 1)], 1,
                         parent_ids.v, grid_ratios.v)

\* _wps2wrf_dxdy with its debugger: [err, v, traced]
Wps2WrfTraced(dxy, nl) ==
    Wps2WrfDomains(max_domains(nl),
                   get_opt_val_no_sect(nl, "parent_id", 0, FALSE),
                   get_opt_val_no_sect(nl, "parent_grid_ratio", 0, FALSE),
                   IF dxy = <<>> THEN ConvErr("IndexError") ELSE ToFloat(dxy[1]))

\* _wps2wrf_dxdy, the debugger left with "continue": [err, v]
_wps2wrf_dxdy(dxy, nl) ==
    [err |-> Wps2WrfTraced(dxy, nl).err, v |-> Wps2WrfTraced(dxy, nl).v]

\* _wps2wrf_dxdy when the user answers the first prompt of the debugger, if
\* there is one, with answer: "quit", and the end of the input, make the
\* debugger raise BdbQuit
Wps2WrfAnswered(dxy, nl, answer) ==
    IF Wps2WrfTraced(dxy, nl).traced /\ answer = "quit" THEN [err |-> "BdbQuit", v |-> <<>>]
    ELSE _wps2wrf_dxdy(dxy, nl)

\* NamelistContainer.wrfopt_to_wpsopt
wrfopt_to_wpsopt(c, optname, wrfval) ==
    IF optname \in _sync_prep_fxns THEN _wrf2wps_dxdy(wrfval, c.wrf) ELSE wrfval

\* NamelistContainer.wpsopt_to_wrfopt: [err, v]
wpsopt_to_wrfopt(c, optname, wpsval) ==
    IF optname \in _sync_prep_fxns THEN _wps2wrf_dxdy(wpsval, c.wps)
    ELSE [err |-> "", v |-> wpsval]

Container(wrf, wps, shared) == [wrf |-> wrf, wps |-> wps, shared |-> shared]

NlOf(c, program) == IF program = "WRF" THEN c.wrf ELSE c.wps

Partner(program) == IF program = "WRF" THEN "WPS" ELSE "WRF"

WithNl(c, program, nl) == IF program = "WRF" THEN [c EXCEPT !.wrf = nl] ELSE [c EXCEPT !.wps = nl]

\* the stored value of an option, <<>> when the namelist lacks it
StoredVal(nl, optname) ==
    IF IsOptInNamelist(nl, optname)
    THEN nl.opts[CHOOSE i \in 1..Len(nl.opts) : nl.opts[i].name = optname].val
    ELSE <<>>

\* the lists that _update_opt_domains of one namelist extended in place and
\* that the other namelist holds too: the other namelist sees them extended
GrownInPlace(c, program, before, after) ==
    {o \in c.shared : /\ InRegistry(before, o)
                      /\ is_option_per_domain(before, o)
                      /\ Len(StoredVal(before, o)) < Len(StoredVal(after, o))}

RECURSIVE StoreAll(_, _, _)
\* the namelist with the values another namelist has for the options named
StoreAll(nl, names, from) ==
    IF names = {} THEN nl
    ELSE LET o == CHOOSE x \in names : TRUE
             i == CHOOSE j \in 1..Len(nl.opts) : nl.opts[j].name = o
         IN  StoreAll([nl EXCEPT !.opts[i].val = StoredVal(from, o)], names \ {o}, from)

\* the container after set_opt_val_no_sect returned r on the namelist of
\* program.  aliased: vals_in is the list the other namelist holds for the
\* option.  The list is stored as it is unless the types are converted; a
\* max_dom callback that returns leaves every list it did not extend in place
\* as a new list.
NlcStored(c, program, optname, vals_in, convert, aliased, r) ==
    LET before == NlOf(c, program)
        rebound == IF r.err # "" THEN c.shared
                   ELSE IF aliased /\ vals_in.islist /\ ~convert THEN c.shared \cup {optname}
                   ELSE c.shared \ {optname}
        grown == IF optname \in callbacks(before) THEN GrownInPlace(c, program, before, r.nl)
                 ELSE {}
        copied == IF optname \in callbacks(before) /\ r.err = ""
                  THEN {o \in c.shared : InRegistry(before, o) /\ is_option_per_domain(before, o)}
                       \ grown
                  ELSE {}
        other == StoreAll(NlOf(c, Partner(program)), grown, r.nl)
    IN  [err |-> r.err,
         c |-> WithNl(WithNl([c EXCEPT !.shared = rebound \ copied], program, r.nl),
                      Partner(program), other),
         v |-> r.v]

\* namelist.set_opt_val_no_sect(optname, vals_in, convert_type_if_needed=convert)
\* on one namelist of the container: [err, c, v]
NlcSet(c, program, optname, vals_in, convert, aliased) ==
    NlcStored(c, program, optname, vals_in, convert, aliased,
              set_opt_val_no_sect(NlOf(c, program), optname, vals_in, FALSE, convert))

\* the answers a user can give ask_user_behavior
this_wrf == "Use WRF"

this_wps == "Use WPS"

all_wrf == "Use WRF (and for all following options)"

all_wps == "Use WPS (and for all following options)"

ignore == "Do not sync"

\* choose_new_val with the two priorities confused
ChooseOtherSide(priority, answers) ==
    [use |-> IF priority = "wrf" THEN "WPS" ELSE "WRF", priority |-> priority,
     answers |-> answers]

\* the decision part of choose_new_val: which namelist's value is used ("none":
\* do not sync), the priority afterwards and the answers the user has left.
\* priority is "wrf", "wps" or "user"; the last answer is given to every
\* further question.
choose_new_val(priority, answers) ==
    IF priority \in {"wrf", "wps"}
    THEN [use |-> IF priority = "wrf" THEN "WRF" ELSE "WPS", priority |-> priority,
          answers |-> answers]
    ELSE LET user_rsp == Head(answers)
             left == IF Len(answers) > 1 THEN Tail(answers) ELSE answers
         IN  [use |-> CASE user_rsp \in {this_wrf, all_wrf} -> "WRF"
                        [] user_rsp \in {this_wps, all_wps} -> "WPS"
                        [] OTHER -> "none",
              priority |-> CASE user_rsp = all_wrf -> "wrf"
                             [] user_rsp = all_wps -> "wps"
                             [] OTHER -> priority,
              answers |-> left]

RECURSIVE SyncOptsFrom(_, _, _, _)

\* the loop of _sync_nl_opts after the i-th option was set
SyncOptsRest(set, i, choice) ==
    IF set.err # "" THEN [err |-> set.err, c |-> set.c]
    ELSE SyncOptsFrom(set.c, i + 1, choice.priority, choice.answers)

\* the i-th option is set in the namelist that was not chosen; new_val is the
\* value of the namelist chosen, converted for the other
SyncOptsSet(c, i, choice, new_val) ==
    IF new_val.err # "" THEN [err |-> new_val.err, c |-> c]
    ELSE SyncOptsRest(NlcSet(c, Partner(choice.use), sync_options[i], List(new_val.v), FALSE,
                             sync_options[i] \notin _sync_prep_fxns),
                      i, choice)

\* the i-th option after its values were read: nothing is done when the two
\* agree, else choose_new_val decides
SyncOptsChoose(c, i, priority, answers, wrf_val, wps_val) ==
    LET optname == sync_options[i]
        choice == choose_new_val(priority, answers)
    IN  IF wrf_val.err # "" THEN [err |-> wrf_val.err, c |-> c]
        ELSE IF wps_val.err # "" THEN [err |-> wps_val.err, c |-> c]
        ELSE IF PyListEq(wrfopt_to_wpsopt(c, optname, wrf_val.v), wps_val.v)
        THEN SyncOptsFrom(c, i + 1, priority, answers)
        ELSE IF choice.use = "none"
        THEN SyncOptsFrom(c, i + 1, choice.priority, choice.answers)
        ELSE SyncOptsSet(c, i, choice,
                         IF choice.use = "WRF"
                         THEN [err |-> "", v |-> wrfopt_to_wpsopt(c, optname, wrf_val.v)]
                         ELSE wpsopt_to_wrfopt(c, optname, wps_val.v))

\* the loop of _sync_nl_opts over sync_options from the i-th on: [err, c]
SyncOptsFrom(c, i, priority, answers) ==
    IF i > Len(sync_options) THEN [err |-> "", c |-> c]
    ELSE SyncOptsChoose(c, i, priority, answers,
                        get_opt_val_no_sect(c.wrf, sync_options[i], 0, FALSE),
                        get_opt_val_no_sect(c.wps, sync_options[i], 0, FALSE))

\* _sync_nl_opts after the dates were synchronized: dated is what
\* set_time_period returned for the namelist that was not chosen
SyncDated(c, choice, dated) ==
    LET c1 == CASE choice.use = "WRF" -> [c EXCEPT !.wps = dated.nl]
                [] choice.use = "WPS" -> [c EXCEPT !.wrf = dated.nl]
                [] OTHER -> c
    IN  IF dated.err # "" THEN [err |-> dated.err, c |-> c1]
        ELSE SyncOptsFrom(c1, 1, choice.priority, choice.answers)

\* _sync_nl_opts after the two periods were read: when they differ, the period
\* of the namelist chosen is given to the other
SyncDates(c, priority_in, answers, wrf_dates, wps_dates) ==
    LET differ == wrf_dates.start # wps_dates.start \/ wrf_dates.end # wps_dates.end
        choice == IF differ THEN choose_new_val(priority_in, answers)
                  ELSE [use |-> "none", priority |-> priority_in, answers |-> answers]
        period == IF choice.use = "WRF" THEN wrf_dates ELSE wps_dates
    IN  IF wrf_dates.err # "" THEN [err |-> wrf_dates.err, c |-> c]
        ELSE IF wps_dates.err # "" THEN [err |-> wps_dates.err, c |-> c]
        ELSE SyncDated(c, choice,
                       IF choice.use = "none" THEN [err |-> "", nl |-> c.wrf]
                       ELSE set_time_period(NlOf(c, Partner(choice.use)),
                                            ArgDateTime(period.start), ArgDateTime(period.end)))

\* NamelistContainer._sync_nl_opts(priority_in=...): [err, c].  priority_in is
\* "None", "no sync", "wrf", "wps" or "user"; answers are the user's answers
\* to the questions of ask_user_behavior, in order.
_sync_nl_opts(c, priority_in, answers) ==
    IF priority_in \in {"no sync", "None"} THEN [err |-> "", c |-> c]
    ELSE IF priority_in \notin {"wrf", "wps", "user"} THEN [err |-> "ValueError", c |-> c]
    ELSE SyncDates(c, priority_in, answers, get_time_period(c.wrf), get_time_period(c.wps))

\* the container after set_time_period or set_run_time returned w for the WRF
\* namelist and p for the WPS namelist
BothSet(c, w, p) == [err |-> p.err, c |-> [c EXCEPT !.wrf = w.nl, !.wps = p.nl]]

\* NamelistContainer.set_time_period after the WRF namelist was set
SetTimePeriodWps(c, start, end, w) ==
    IF w.err # "" THEN [err |-> w.err, c |-> [c EXCEPT !.wrf = w.nl]]
    ELSE BothSet(c, w, set_time_period(c.wps, start, end))

\* NamelistContainer.set_time_period with the bounds it passes on
SetTimePeriodBoth(c, start, end) ==
    SetTimePeriodWps(c, start, end, set_time_period(c.wrf, start, end))

\* a datetime.time argument keeps the date d
OnDate(arg, d) ==
    IF arg.t = "time"
    THEN ArgDateTime(DateTime(d.year, d.month, d.day, arg.dt.hour, arg.dt.minute, arg.dt.second))
    ELSE arg

\* NamelistContainer.set_time_period after the period of the WPS namelist was
\* read
SetTimePeriodFrom(c, start_time, end_time, curr) ==
    IF curr.err # "" THEN [err |-> curr.err, c |-> c]
    ELSE SetTimePeriodBoth(c, OnDate(start_time, curr.start), OnDate(end_time, curr.end))

\* set_time_period that forgets the WPS namelist
SetTimePeriodWrfOnly(c, start_time, end_time) ==
    LET w == set_time_period(c.wrf, start_time, end_time)
    IN  [err |-> w.err, c |-> [c EXCEPT !.wrf = w.nl]]

\* NamelistContainer.set_time_period: [err, c].  A datetime.time argument keeps
\* the date the WPS namelist has for that bound.
ContainerSetTimePeriod(c, start_time, end_time) ==
    SetTimePeriodFrom(c, start_time, end_time, get_time_period(c.wps))

\* NamelistContainer.set_run_time after the WRF namelist was set
SetRunTimeWps(c, run_time, start_date, w) ==
    IF w.err # "" THEN [err |-> w.err, c |-> [c EXCEPT !.wrf = w.nl]]
    ELSE BothSet(c, w, set_run_time(c.wps, run_time, start_date))

\* NamelistContainer.set_run_time: [err, c]
ContainerSetRunTime(c, run_time, start_date) ==
    SetRunTimeWps(c, run_time, start_date, set_run_time(c.wrf, run_time, start_date))

\* Namelist.IsOptBool: [err, b]; the stored value must be text to be stripped
IsOptBool(nl, sectname, optname) ==
    LET opt == nl.opts[OptIdx(nl, sectname, optname)].val
        text == Strip(opt[1].s, Whitespace)
    IN  IF opt = <<>> THEN [err |-> "IndexError", b |-> FALSE]
        ELSE IF opt[1].k # "str" THEN [err |-> "AttributeError", b |-> FALSE]
        ELSE [err |-> "", b |-> text \in {<<".", "t", "r", "u", "e", ".">>,
                                          <<".", "f", "a", "l", "s", "e", ".">>}]

\* [err, c] of a call that returned [err, c, v]
ErrC(r) == [err |-> r.err, c |-> r.c]

\* cmd_set_other_opt for a domain option after the WPS namelist was set (p)
CmdSetWrf(optname, optval, force_wrf_only, p) ==
    IF p.err # "" THEN [err |-> p.err, c |-> p.c]
    ELSE ErrC(NlcSet(p.c, "WRF", optname, optval, FALSE, ~force_wrf_only))

\* cmd_set_other_opt for another option after set_opt_val returned r
CmdSetStored(c, program, optname, r) ==
    [err |-> r.err, c |-> [WithNl(c, program, r.nl) EXCEPT !.shared = @ \ {optname}]]

\* NamelistContainer.cmd_set_other_opt: [err, c]
cmd_set_other_opt(c, optname, optval, force_wrf_only) ==
    IF optname \in date_opts THEN [err |-> "RuntimeError", c |-> c]
    ELSE IF optname \in SeqRange(domain_opts)
    THEN CmdSetWrf(optname, optval, force_wrf_only,
                   IF force_wrf_only THEN [err |-> "", c |-> c]
                   ELSE ErrC(NlcSet(c, "WPS", optname, optval, FALSE, FALSE)))
    ELSE LET in_wps == find_opt_section(c.wps, optname)
             in_wrf == find_opt_section(c.wrf, optname)
             program == IF in_wps.sect # NoSect THEN "WPS" ELSE "WRF"
             sect == IF in_wps.sect # NoSect THEN in_wps.sect ELSE in_wrf.sect
             is_bool == IsOptBool(NlOf(c, program), sect, optname)
             text_is(t) == ~optval.islist /\ optval.v[1].k = "str" /\ optval.v[1].s = t
         IN  IF in_wps.err # "" THEN [err |-> in_wps.err, c |-> c]
             ELSE IF in_wps.sect = NoSect /\ in_wrf.err # "" THEN [err |-> in_wrf.err, c |-> c]
             ELSE IF sect = NoSect THEN [err |-> "RuntimeError", c |-> c]
             ELSE IF is_bool.err # "" THEN [err |-> is_bool.err, c |-> c]
             ELSE IF /\ is_bool.b
                     /\ ~text_is(<<".", "t", "r", "u", "e", ".">>)
                     /\ ~text_is(<<".", "f", "a", "l", "s", "e", ".">>)
             THEN [err |-> "RuntimeError", c |-> c]
             ELSE CmdSetStored(c, program, optname,
                               set_opt_val(NlOf(c, program), sect, optname, optval, FALSE, FALSE))

(***************************************************************************)
(* NamelistContainer._parse_option_input.                                  *)
(***************************************************************************)
RECURSIVE DigitRun(_, _)
\* the number of digits from position i on
DigitRun(t, i) == IF i <= Len(t) /\ IsDigit(t[i]) THEN 1 + DigitRun(t, i + 1) ELSE 0

RECURSIVE BlankRun(_, _)
\* the number of whitespace characters from position i on
BlankRun(t, i) == IF i <= Len(t) /\ t[i] \in Whitespace THEN 1 + BlankRun(t, i + 1) ELSE 0

\* the length of what \d*:?\d* matches at position i
IndicesLen(t, i) ==
    LET d1 == DigitRun(t, i)
        colon == IF i + d1 <= Len(t) /\ t[i + d1] = ":" THEN 1 ELSE 0
        d2 == DigitRun(t, i + d1 + colon)
    IN  d1 + colon + d2

\* the length of what the at_command pattern \s*@\d*:?\d* matches at
\* position i, 0 when it does not match there
AtCommandLen(t, i) ==
    LET blanks == BlankRun(t, i)
    IN  IF i + blanks <= Len(t) /\ t[i + blanks] = "@"
        THEN blanks + 1 + IndicesLen(t, i + blanks + 1)
        ELSE 0

RECURSIVE AtCommandSub(_, _)
\* at_command.sub('', input_str) from position i on: every match is removed
AtCommandSub(t, i) ==
    IF i > Len(t) THEN <<>>
    ELSE IF AtCommandLen(t, i) > 0 THEN AtCommandSub(t, i + AtCommandLen(t, i))
    ELSE <<t[i]>> \o AtCommandSub(t, i + 1)

\* a slice object: None bounds are marked by has_start and has_stop
Slice(has_start, start, has_stop, stop) ==
    [has_start |-> has_start, start |-> start, has_stop |-> has_stop, stop |-> stop]

\* the slice of an @ command whose indices are taken as 0-based
AtCommandSliceZeroBased(input_str) ==
    LET blanks == BlankRun(input_str, 1)
        from == blanks + 2
        text == SubSeq(input_str, from, from + IndicesLen(input_str, from) - 1)
        indices == Split(text, ":")
        given(i) == indices[i] # <<>>
        index(i) == DigitsVal(indices[i])
    IN  IF Len(indices) = 1
        THEN IF given(1) THEN [err |-> "", xx |-> Slice(TRUE, index(1), TRUE, index(1) + 1)]
             ELSE [err |-> "TypeError", xx |-> Slice(FALSE, 0, FALSE, 0)]
        ELSE [err |-> "",
              xx |-> Slice(given(1), IF given(1) THEN index(1) ELSE 0,
                           given(2), IF given(2) THEN index(2) + 1 ELSE 0)]

\* the slice of an @ command at the start of the input: [err, xx].  The
\* indices are 1-based in the input and the end is inclusive.
AtCommandSlice(input_str) ==
    LET blanks == BlankRun(input_str, 1)
        from == blanks + 2
        text == SubSeq(input_str, from, from + IndicesLen(input_str, from) - 1)
        indices == Split(text, ":")
        given(i) == indices[i] # <<>>
        index(i) == DigitsVal(indices[i]) - 1
    IN  IF Len(indices) = 1
        THEN IF given(1) THEN [err |-> "", xx |-> Slice(TRUE, index(1), TRUE, index(1) + 1)]
             ELSE [err |-> "TypeError", xx |-> Slice(FALSE, 0, FALSE, 0)]
        ELSE [err |-> "",
              xx |-> Slice(given(1), IF given(1) THEN index(1) ELSE 0,
                           given(2), IF given(2) THEN index(2) + 1 ELSE 0)]

\* slice.indices(n) for a slice without step: <<start, stop>>
SliceIndices(xx, n) ==
    LET clip(has, x, default) ==
            IF ~has THEN default
            ELSE IF x < 0 THEN (IF x + n < 0 THEN 0 ELSE x + n)
            ELSE IF x > n THEN n ELSE x
    IN  <<clip(xx.has_start, xx.start, 0), clip(xx.has_stop, xx.stop, n)>>

\* the length of the slice counted with both ends
SliceLengthInclusive(xx, n) ==
    LET inds == SliceIndices(xx, n)
    IN  IF inds[2] >= inds[1] THEN inds[2] - inds[1] + 1 ELSE 0

\* len(range(*xx.indices(n)))
SliceLength(xx, n) ==
    LET inds == SliceIndices(xx, n)
    IN  IF inds[2] > inds[1] THEN inds[2] - inds[1] ELSE 0

\* the list after "new_vals[xx] = input_vals"
SliceAssign(new_vals, xx, input_vals) ==
    LET inds == SliceIndices(xx, Len(new_vals))
        stop == IF inds[2] > inds[1] THEN inds[2] ELSE inds[1]
    IN  SubSeq(new_vals, 1, inds[1]) \o input_vals \o SubSeq(new_vals, stop + 1, Len(new_vals))

\* Namelist.check_value_type(optname, optval) for a list: one flag per value;
\* a value is good when the conversion function of the type does not raise
check_value_type(nl, optname, optval) ==
    LET reg_entry_type == lookup_opt_in_registry(nl, optname).type
    IN  [i \in 1..Len(optval) |-> _type_conversions(reg_entry_type, optval[i]).err = ""]

RECURSIVE BadInds(_, _, _)
\* [i + 1 + slice_start for i, x in enumerate(good_opts) if not x], from the
\* k-th flag on (i = k - 1)
BadInds(good_opts, k, slice_start) ==
    IF k > Len(good_opts) THEN <<>>
    ELSE (IF good_opts[k] THEN <<>> ELSE <<(k - 1) + 1 + slice_start>>)
         \o BadInds(good_opts, k + 1, slice_start)

\* _parse_option_input raising e with the message m
ParseFail(nl, e, m) == [err |-> e, msg |-> m, v |-> <<>>, nl |-> nl]

\* the end of _parse_option_input for an @ command: new_vals[xx] = input_vals
\* on the current value curr of the option
ParseReplace(nl, xx, input_vals, curr) ==
    IF curr.err # "" THEN ParseFail(nl, curr.err, NoMsg)
    ELSE [err |-> "", msg |-> NoMsg, v |-> SliceAssign(curr.v, xx, input_vals), nl |-> curr.nl]

\* _parse_option_input after check_value_type returned good_opts
ParseChecked(nl, optname, has_at, xx, reg_type, input_vals, good_opts) ==
    IF \E i \in 1..Len(good_opts) : ~good_opts[i]
    THEN IF has_at /\ ~xx.has_start THEN ParseFail(nl, "TypeError", NoMsg)
         ELSE ParseFail(nl, "NamelistValueError",
                        Msg("incorrect format",
                            BadInds(good_opts, 1, IF has_at THEN xx.start ELSE 0), reg_type))
    ELSE IF ~has_at THEN [err |-> "", msg |-> NoMsg, v |-> input_vals, nl |-> nl]
    ELSE ParseReplace(nl, xx, input_vals, get_opt_val_no_sect(nl, optname, 0, TRUE))

\* _parse_option_input with the values as they are checked
ParseTyped(nl, optname, has_at, xx, reg_type, input_vals) ==
    ParseChecked(nl, optname, has_at, xx, reg_type, input_vals,
                 check_value_type(nl, optname, input_vals))

\* _parse_option_input with the right number of values: t and f are written
\* out for a logical option
ParseSized(nl, optname, has_at, xx, reg_type, sized) ==
    ParseTyped(nl, optname, has_at, xx, reg_type,
               [i \in 1..Len(sized) |->
                   IF reg_type = "logical" /\ Lower(sized[i].s) = <<"t">>
                   THEN PyStr(<<".", "t", "r", "u", "e", ".">>)
                   ELSE IF reg_type = "logical" /\ Lower(sized[i].s) = <<"f">>
                   THEN PyStr(<<".", "f", "a", "l", "s", "e", ".">>)
                   ELSE sized[i]])

\* _parse_option_input on the values split: the number of values is checked;
\* matched is the list padded to the number of domains, slice_length the
\* number of domains the @ command names
ParseCounted(nl, optname, has_at, xx, texts, is_per_domain, matched, slice_length) ==
    IF ~is_per_domain /\ (Len(texts) # 1 \/ texts[1].s = <<>>)
    THEN ParseFail(nl, "NamelistValueError", Msg("requires exactly 1 value", <<>>, ""))
    ELSE IF is_per_domain /\ ~has_at /\ matched.err # ""
    THEN ParseFail(nl, matched.err, matched.msg)
    ELSE IF is_per_domain /\ has_at /\ Len(texts) # slice_length
    THEN ParseFail(nl, "NamelistValueError",
                   Msg("domain(s) specified to change, but values provided",
                       <<slice_length, Len(texts)>>, ""))
    ELSE ParseSized(nl, optname, has_at, xx, lookup_opt_in_registry(nl, optname).type,
                    IF is_per_domain /\ ~has_at THEN matched.v ELSE texts)

\* _parse_option_input after the @ command (at) was read and the rest of the
\* input was split into texts
ParseValues(nl, optname, has_at, at, texts) ==
    IF has_at /\ at.err # "" THEN ParseFail(nl, at.err, NoMsg)
    ELSE IF ~InRegistry(nl, optname) THEN ParseFail(nl, "KeyError", NoMsg)
    ELSE ParseCounted(nl, optname, has_at, at.xx, texts, is_option_per_domain(nl, optname),
                      match_option_length_to_domains(nl, List(texts), TRUE, TRUE),
                      SliceLength(at.xx, max_domains(nl)))

\* the values of the input: the @ command removed, split at the commas
SplitValues(input_str) ==
    LET stripped == Strip(AtCommandSub(input_str, 1), Whitespace \cup {","})
        pieces == Split(stripped, ",")
    IN  [i \in 1..Len(pieces) |-> PyStr(Strip(pieces[i], Whitespace))]

\* NamelistContainer._parse_option_input(namelist, optname, input_str):
\* [err, msg, v, nl].  msg is the message of a NamelistValueError; nl is the
\* namelist afterwards (get_opt_val_no_sect(match_n_domains=True) extends a
\* stored list that is too short).
_parse_option_input(nl, optname, input_str) ==
    ParseValues(nl, optname, AtCommandLen(input_str, 1) > 0, AtCommandSlice(input_str),
                SplitValues(input_str))

(***************************************************************************)
(* The interactive and the preset edits of NamelistContainer.              *)
(***************************************************************************)
\* what the user enters at a prompt for a value: nothing (None is returned)
\* or a text
NoInput == [given |-> FALSE, text |-> <<>>]

Input(text) == [given |-> TRUE, text |-> text]

\* _user_set_other_opt returning None, or raising e
ReturnNone(e, c) == [err |-> e, c |-> c, none |-> TRUE, v |-> <<>>]

\* _user_set_other_opt after set_opt_val_no_sect returned
UserSetStored(set) == [err |-> set.err, c |-> set.c, none |-> FALSE, v |-> set.v]

\* _user_set_other_opt after the input the user gave was parsed again
UserSetParsed(c, program, option_name, parsed) ==
    IF parsed.err # "" THEN ReturnNone(parsed.err, WithNl(c, program, parsed.nl))
    ELSE UserSetStored(NlcSet(WithNl(c, program, parsed.nl), program, option_name,
                              List(parsed.v), TRUE, FALSE))

\* _user_set_other_opt after check_fxn parsed the input the user gave: a text
\* that it does not accept is asked for again, and the user then enters nothing
UserSetChecked(c, program, option_name, user_val, checked) ==
    IF checked.err = "NamelistValueError" THEN ReturnNone("", WithNl(c, program, checked.nl))
    ELSE IF checked.err # "" THEN ReturnNone(checked.err, WithNl(c, program, checked.nl))
    ELSE UserSetParsed(c, program, option_name,
                       _parse_option_input(checked.nl, option_name, user_val.text))

\* _user_set_other_opt after the current value of the option was read
UserSetCurrent(c, program, option_name, user_val, curr_val) ==
    IF curr_val.err # "" THEN ReturnNone(curr_val.err, c)
    ELSE IF ~user_val.given THEN ReturnNone("", c)
    ELSE UserSetChecked(c, program, option_name, user_val,
                        _parse_option_input(NlOf(c, program), option_name, user_val.text))

\* NamelistContainer._user_set_other_opt(config_obj, namelist, option_name) on
\* the namelist of a program: [err, c, none, v]; none: None is returned.
\* user_val is what the user enters.
_user_set_other_opt(c, program, option_name, user_val) ==
    IF ~InRegistry(NlOf(c, program), option_name) THEN ReturnNone("KeyError", c)
    ELSE IF option_name \in date_opts THEN ReturnNone("", c)
    ELSE UserSetCurrent(c, program, option_name, user_val,
                        get_opt_val_no_sect(NlOf(c, program), option_name, 0, FALSE))

RECURSIVE UserSetDomainFrom(_, _, _)

\* the loop of user_set_domain after the WRF namelist was set for the i-th
\* option
UserSetDomainRest(w, i, inputs) ==
    IF w.err # "" THEN [err |-> w.err, c |-> w.c]
    ELSE UserSetDomainFrom(w.c, i + 1, inputs)

\* the WRF namelist is given the value the user set in the WPS namelist
UserSetDomainWrf(optval, to_wrf, i, inputs) ==
    IF to_wrf.err # "" THEN [err |-> to_wrf.err, c |-> optval.c]
    ELSE UserSetDomainRest(NlcSet(optval.c, "WRF", domain_opts[i], List(to_wrf.v), FALSE,
                                  domain_opts[i] \notin _sync_prep_fxns),
                           i, inputs)

\* the loop of user_set_domain after _user_set_other_opt returned optval for
\* the i-th option
UserSetDomainWps(optval, i, inputs) ==
    IF optval.err # "" THEN [err |-> optval.err, c |-> optval.c]
    ELSE IF optval.none THEN UserSetDomainFrom(optval.c, i + 1, inputs)
    ELSE UserSetDomainWrf(optval, wpsopt_to_wrfopt(optval.c, domain_opts[i], optval.v), i,
                          inputs)

\* the loop of user_set_domain over domain_opts from the i-th on: [err, c]
UserSetDomainFrom(c, i, inputs) ==
    IF i > Len(domain_opts) THEN [err |-> "", c |-> c]
    ELSE UserSetDomainWps(_user_set_other_opt(c, "WPS", domain_opts[i], inputs[domain_opts[i]]),
                          i, inputs)

\* NamelistContainer.user_set_domain: [err, c]; inputs maps each of
\* domain_opts to what the user enters for it
user_set_domain(c, inputs) == UserSetDomainFrom(c, 1, inputs)

RECURSIVE SetFromDict(_, _, _)

\* set_namelist_opts_from_dict after set_opt_val returned r for the first
\* entry; a NamelistKeyError of set_opt_val is skipped
SetFromDictRest(c, option_dict, convert_types, program, r) ==
    LET c1 == [WithNl(c, program, r.nl) EXCEPT !.shared = @ \ {Head(option_dict).opt}]
    IN  IF r.err = "NamelistKeyError" THEN SetFromDict(c, Tail(option_dict), convert_types)
        ELSE IF r.err # "" THEN [err |-> r.err, c |-> c1]
        ELSE SetFromDict(c1, Tail(option_dict), convert_types)

\* NamelistContainer.set_namelist_opts_from_dict(option_dict, convert_types):
\* [err, c].  option_dict is the sequence of its entries
\* [program, sect, opt, val].
SetFromDict(c, option_dict, convert_types) ==
    IF option_dict = <<>> THEN [err |-> "", c |-> c]
    ELSE LET e == Head(option_dict)
             program == IF e.program \in {"wrf", "WRF"} THEN "WRF" ELSE "WPS"
         IN  IF e.program \notin {"wrf", "WRF", "wps", "WPS"}
             THEN [err |-> "NamelistRuntimeError", c |-> c]
             ELSE SetFromDictRest(c, option_dict, convert_types, program,
                                  set_opt_val(NlOf(c, program), e.sect, e.opt, e.val, FALSE,
                                              convert_types))

\* NamelistContainer.set_met(met_type): [err, c]; met_opts is what
\* get_met_presets(met_type) returns for the met type
set_met(c, met_opts) == SetFromDict(c, met_opts, TRUE)

\* NamelistContainer.__init__ after the two namelists were read
NewContainerOf(wrf, wps, sync_priority, answers) ==
    IF wrf.err # "" THEN [err |-> wrf.err, c |-> Container(wrf.nl, wps.nl, {})]
    ELSE IF wps.err # "" THEN [err |-> wps.err, c |-> Container(wrf.nl, wps.nl, {})]
    ELSE _sync_nl_opts(Container(wrf.nl, wps.nl, {}), sync_priority, answers)

\* NamelistContainer(wrffile=..., wpsfile=..., sync_priority=...): [err, c]
NewContainer(wrffile, wpsfile, sync_priority, answers) ==
    NewContainerOf(NewNamelist("WRF", wrffile), NewNamelist("WPS", wpsfile), sync_priority,
                   answers)

(***************************************************************************)
(* Namelist files.  The files the model reads hold the options below; the  *)
(* per-domain options are written with n values each, which may be fewer   *)
(* or more than the file's max_dom.  v picks one of two sets of values.    *)
(***************************************************************************)
PerDomain(F(_), n) == [i \in 1..n |-> F(i)]

RECURSIVE Pow3(_)
Pow3(e) == IF e = 0 THEN 1 ELSE 3 * Pow3(e - 1)

FileInt(base, v, i) == PyInt(base + 10 * v + i)

\* namelist.input with max_dom md, n values per per-domain option, the run from
\* start to end, and gfdda_end_h (<<>>: the option is absent)
WrfFile(md, n, v, start, end, fdda) ==
    LET run_td == DiffDates(end, start)
        hms == TimedeltaHMS(run_td)
        field(x, name) ==
            CASE name \in {"start_year", "end_year"} -> x.year
              [] name \in {"start_month", "end_month"} -> x.month
              [] name \in {"start_day", "end_day"} -> x.day
              [] name \in {"start_hour", "end_hour"} -> x.hour
              [] name \in {"start_minute", "end_minute"} -> x.minute
              [] name \in {"start_second", "end_second"} -> x.second
        dates(x, names) ==
            [j \in 1..6 |-> Opt("time_control", names[j], TRUE,
                                PerDomain(LAMBDA i : PyInt(field(x, names[j])), n))]
    IN  << Opt("time_control", "run_days", FALSE, <<PyInt(run_td.days)>>),
           Opt("time_control", "run_hours", FALSE, <<PyInt(hms[1])>>),
           Opt("time_control", "run_minutes", FALSE, <<PyInt(hms[2])>>),
           Opt("time_control", "run_seconds", FALSE, <<PyInt(hms[3])>>) >>
        \o dates(start, WrfStartFields) \o dates(end, WrfEndFields)
        \o << Opt("time_control", "input_from_file", TRUE, PerDomain(LAMBDA i : PyBool(TRUE), n)),
              Opt("domains", "time_step", FALSE, <<PyInt(60)>>),
              Opt("domains", "max_dom", FALSE, <<PyInt(md)>>),
              Opt("domains", "e_we", TRUE, PerDomain(LAMBDA i : FileInt(100, v, i), n)),
              Opt("domains", "e_sn", TRUE, PerDomain(LAMBDA i : FileInt(200, v, i), n)),
              Opt("domains", "dx", TRUE,
                  PerDomain(LAMBDA i : PyInt((9000 + 2700 * v) \div Pow3(i - 1)), n)),
              Opt("domains", "dy", TRUE,
                  PerDomain(LAMBDA i : PyFloat(9000 + 2700 * v, Pow3(i - 1)), n)),
              Opt("domains", "parent_id", TRUE,
                  PerDomain(LAMBDA i : PyInt(IF i = 1 THEN 1 ELSE i - 1), n)),
              Opt("domains", "parent_grid_ratio", TRUE,
                  PerDomain(LAMBDA i : PyInt(IF i = 1 THEN 1 ELSE 3), n)),
              Opt("domains", "i_parent_start", TRUE, PerDomain(LAMBDA i : FileInt(0, v, i), n)),
              Opt("domains", "j_parent_start", TRUE, PerDomain(LAMBDA i : FileInt(20, v, i), n)) >>
        \o (IF fdda = <<>> THEN <<>>
            ELSE << Opt("fdda", "gfdda_end_h", TRUE, PerDomain(LAMBDA i : PyInt(fdda[1]), n)) >>)
        \o << Opt("physics", "physics_suite", FALSE, <<PyStr(<<"C", "O", "N", "U", "S">>)>>),
              Opt("dynamics", "diff_6th_factor", TRUE,
                  PerDomain(LAMBDA i : PyFloat(12, 100), n)) >>

\* namelist.wps with max_dom md and n values per per-domain option; start_text
\* and end_text are the date strings as the file has them
WpsFile(md, n, v, start_text, end_text) ==
    << Opt("share", "max_dom", FALSE, <<PyInt(md)>>),
       Opt("share", "start_date", TRUE, PerDomain(LAMBDA i : PyStr(start_text), n)),
       Opt("share", "end_date", TRUE, PerDomain(LAMBDA i : PyStr(end_text), n)),
       Opt("share", "interval_seconds", FALSE, <<PyInt(21600)>>),
       Opt("geogrid", "parent_id", TRUE, PerDomain(LAMBDA i : PyInt(IF i = 1 THEN 1 ELSE i - 1), n)),
       Opt("geogrid", "parent_grid_ratio", TRUE,
           PerDomain(LAMBDA i : PyInt(IF i = 1 THEN 1 ELSE 3), n)),
       Opt("geogrid", "i_parent_start", TRUE, PerDomain(LAMBDA i : FileInt(0, v, i), n)),
       Opt("geogrid", "j_parent_start", TRUE, PerDomain(LAMBDA i : FileInt(20, v, i), n)),
       Opt("geogrid", "e_we", TRUE, PerDomain(LAMBDA i : FileInt(100, v, i), n)),
       Opt("geogrid", "e_sn", TRUE, PerDomain(LAMBDA i : FileInt(200, v, i), n)),
       Opt("geogrid", "dx", FALSE, <<PyInt(9000 + 2700 * v)>>),
       Opt("geogrid", "dy", FALSE, <<PyFloat(9000 + 2700 * v, 1)>>),
       Opt("geogrid", "map_proj", FALSE, <<PyStr(<<"l", "a", "m", "b", "e", "r", "t">>)>>) >>

(***************************************************************************)
(* State.                                                                  *)
(***************************************************************************)
VARIABLES
    namelists,    \* the live namelist objects, by program name ("WRF", "WPS")
    shared,       \* option names whose list object both namelists hold
    last,         \* the last call made: its name, arguments, exception, result
    ever_raised,  \* some call since construction raised an exception
    edits,        \* number of calls made since construction
    reg_files,    \* the registry files on disk: their lines, by file name
    envvar_config,\* the ENVIRONMENT section of the configuration given to Registry
    frames,       \* the calls of Registry._parse_reg_file in progress, innermost last
    registry,     \* what the Registry constructor has produced so far
    reg_trace     \* the calls of Registry._parse_reg_line made so far, in order

reg_vars == <<reg_files, envvar_config, frames, registry, reg_trace>>

vars == <<namelists, shared, last, ever_raised, edits, reg_vars>>

\* no Registry is being constructed
NoRegistry ==
    /\ reg_files = <<>>
    /\ envvar_config = <<>>
    /\ frames = <<>>
    /\ registry = [state |-> "none"]
    /\ reg_trace = <<>>

Programs == {"WRF", "WPS"}

StartDate == DateTime(2020, 1, 1, 0, 0, 0)

EndDate == DateTime(2020, 1, 2, 0, 0, 0)

RECURSIVE Only(_, _)
\* the file with only the options named
Only(file_opts, names) ==
    IF file_opts = <<>> THEN <<>>
    ELSE (IF Head(file_opts).name \in names THEN <<Head(file_opts)>> ELSE <<>>)
         \o Only(Tail(file_opts), names)

\* the options of the namelist.input files a single WrfNamelist is made from
WrfFileOpts ==
    {"input_from_file", "time_step", "max_dom", "e_we", "e_sn", "dx", "dy", "parent_id",
     "physics_suite", "diff_6th_factor"}

\* the options of the namelist.wps files a single WpsNamelist is made from
WpsFileOpts ==
    {"max_dom", "start_date", "interval_seconds", "parent_id", "e_we", "e_sn", "dx", "dy",
     "map_proj"}

\* the namelist files a single namelist object is constructed from
FilesOf(program) ==
    IF program = "WRF"
    THEN {Only(WrfFile(md, n, 0, StartDate, EndDate, <<>>), WrfFileOpts) :
            md \in 1..MaxDom, n \in 1..(MaxDom + 1)}
    ELSE {Only(WpsFile(md, n, 0, FormatDate(StartDate), FormatDate(EndDate)), WpsFileOpts) :
            md \in 1..MaxDom, n \in 1..(MaxDom + 1)}

\* the constructor of the namelist of a program returned r: the namelist is
\* the only live one
Constructed(program, r) ==
    /\ r.err = ""
    /\ namelists = [p \in {program} |-> r.nl]

\* the state after WrfNamelist(file) or WpsNamelist(file) returned
Init ==
    /\ \E program \in Programs : \E file_opts \in FilesOf(program) :
          Constructed(program, NewNamelist(program, file_opts))
    /\ shared = {}
    /\ last = [op |-> "__init__", err |-> ""]
    /\ ever_raised = FALSE
    /\ edits = 0
    /\ NoRegistry

\* the callers of set_opt_val do not catch what it raises (only
\* set_namelist_opts_from_dict skips a NamelistKeyError): the script that made
\* the call ends with the first exception
Running == ~ever_raised

Call(optname, vals_in, resize, convert) ==
    [optname |-> optname, vals_in |-> vals_in, resize |-> resize, convert |-> convert]

\* the calls of set_opt_val the model makes: the option, the value and the
\* two keyword arguments
SetCalls ==
    {Call("max_dom", Scalar(PyInt(n)), FALSE, FALSE) : n \in 0..MaxDom}
    \cup {Call("e_we", List([i \in 1..k |-> PyInt(7 + i)]), resize, FALSE) :
            k \in 0..(MaxDom + 1), resize \in BOOLEAN}
    \cup {Call("e_we", List([i \in 1..(MaxDom + 1) |-> PyStr(<<"7">>)]), resize, FALSE) :
            resize \in BOOLEAN}
    \cup {Call("e_we", Scalar(PyStr(text)), FALSE, convert) :
            text \in {<<"7">>, <<"x">>}, convert \in BOOLEAN}
    \cup {Call("e_we", Scalar(PyInt(7)), FALSE, FALSE),
          Call("time_step", Scalar(PyInt(90)), FALSE, FALSE),
          Call("interval_seconds", Scalar(PyInt(90)), FALSE, FALSE),
          Call("time_step", List(<<PyInt(90), PyInt(91)>>), TRUE, FALSE),
          Call("interval_seconds", List(<<PyInt(90), PyInt(91)>>), TRUE, FALSE),
          Call("no_such_opt", Scalar(PyInt(1)), FALSE, FALSE)}

\* the section names the calls pass for an option: its own and another one
SectionsFor(nl, optname) ==
    LET found_in == {nl.opts[i].sect : i \in {j \in 1..Len(nl.opts) : nl.opts[j].name = optname}}
    IN  (IF found_in = {} THEN {NoSect} ELSE found_in)
        \cup (IF optname = "e_we" THEN {"physics"} ELSE {})

\* the call c of the method op on the namelist of p, with the section name
\* sectname, returned or raised r: the namelist is what the call left, and the
\* call is recorded
Called(op, p, sectname, c, r) ==
    /\ namelists' = [namelists EXCEPT ![p] = r.nl]
    /\ last' = [op |-> op, program |-> p, sectname |-> sectname, optname |-> c.optname,
                vals_in |-> c.vals_in, resize |-> c.resize, convert |-> c.convert,
                err |-> r.err, ret |-> r.v, max_dom |-> max_domains(namelists[p])]
    /\ ever_raised' = (ever_raised \/ r.err # "")
    /\ UNCHANGED reg_vars

\* namelist.set_opt_val(sectname, optname, vals_in, resize_if_needed, convert_type_if_needed)
SetOptVal(p) ==
    /\ Running
    /\ p \in DOMAIN namelists
    /\ \E c \in SetCalls : \E sectname \in SectionsFor(namelists[p], c.optname) :
          Called("set_opt_val", p, sectname, c,
                 set_opt_val(namelists[p], sectname, c.optname, c.vals_in, c.resize, c.convert))
    /\ UNCHANGED <<shared, edits>>

\* namelist.set_opt_val_no_sect(optname, vals_in, resize_if_needed=..., convert_type_if_needed=...)
SetOptValNoSect(p) ==
    /\ Running
    /\ p \in DOMAIN namelists
    /\ \E c \in SetCalls :
          Called("set_opt_val_no_sect", p, NoSect, c,
                 set_opt_val_no_sect(namelists[p], c.optname, c.vals_in, c.resize, c.convert))
    /\ UNCHANGED <<shared, edits>>

Next ==
    \/ \E p \in Programs : SetOptVal(p)
    \/ \E p \in Programs : SetOptValNoSect(p)

Spec == Init /\ [][Next]_vars

(***************************************************************************)
(* A NamelistContainer and the edits made through it.                      *)
(***************************************************************************)
\* the options of the namelist.input files a container is made from
NlcWrfFileOpts ==
    SeqRange(WrfRunFields) \cup SeqRange(WrfStartFields) \cup SeqRange(WrfEndFields)
    \cup SeqRange(domain_opts) \cup {"time_step", "physics_suite"}

OtherStartDate == DateTime(2019, 12, 31, 18, 0, 0)

\* the pairs of files: the WPS file agrees with the WRF file on the dates and
\* on the values of the first domains, or on neither
FilePairs ==
    {[wrffile |-> Only(WrfFile(wrf_dom, wrf_dom, 0, StartDate, EndDate, <<>>), NlcWrfFileOpts),
      wpsfile |-> IF agree
                  THEN WpsFile(wps_dom, wps_dom, 0, FormatDate(StartDate), FormatDate(EndDate))
                  ELSE WpsFile(wps_dom, wps_dom, 1, FormatDate(OtherStartDate),
                               FormatDate(StartDate))] :
        wrf_dom \in 1..MaxNlcDom, wps_dom \in 1..MaxNlcDom, agree \in BOOLEAN}

\* sync_priority with the answers the user gives when it is "user"
Policies ==
    {[sync_priority |-> p, answers |-> <<>>] : p \in {"None", "no sync", "wrf", "wps"}}
    \cup {[sync_priority |-> "user", answers |-> a] :
            a \in {<<ignore>>, <<this_wrf, all_wps>>, <<this_wps, ignore, all_wrf>>}}

AsContainer == Container(namelists["WRF"], namelists["WPS"], shared)

\* the constructor of the container returned r: its namelists are the live
\* ones; wrf_before and wps_before are the namelists as read from the files
ContainerConstructed(policy, r, wrf_before, wps_before) ==
    /\ r.err = ""
    /\ namelists = [p \in Programs |-> NlOf(r.c, p)]
    /\ shared = r.c.shared
    /\ last = [op |-> "NamelistContainer", err |-> "",
               sync_priority |-> policy.sync_priority, answers |-> policy.answers,
               wrf_before |-> wrf_before.nl, wps_before |-> wps_before.nl]

\* the state after NamelistContainer(wrffile=..., wpsfile=..., sync_priority=...)
\* returned
InitNLC ==
    /\ \E files \in FilePairs : \E policy \in Policies :
          ContainerConstructed(policy,
                               NewContainer(files.wrffile, files.wpsfile, policy.sync_priority,
                                            policy.answers),
                               NewNamelist("WRF", files.wrffile),
                               NewNamelist("WPS", files.wpsfile))
    /\ ever_raised = FALSE
    /\ edits = 0
    /\ NoRegistry

\* the WPS equivalent of a WRF value: WPS has dx and dy for the first domain only
WpsEquivalent(optname, wrf_val) ==
    IF optname \in {"dx", "dy"} THEN SubSeq(wrf_val, 1, IF wrf_val = <<>> THEN 0 ELSE 1)
    ELSE wrf_val

\* two results of get_time_period are the same start and end date
PeriodsAgree(wrf_dates, wps_dates) ==
    /\ wrf_dates.err = ""
    /\ wps_dates.err = ""
    /\ wrf_dates.start = wps_dates.start
    /\ wrf_dates.end = wps_dates.end

\* the two namelists have the same start and end date
DatesAgree(wrf, wps) == PeriodsAgree(get_time_period(wrf), get_time_period(wps))

\* the duplicated-option invariant: the dates agree, and the WPS equivalent of
\* the WRF value of every synchronized option is the WPS value
Synced(wrf, wps) ==
    /\ DatesAgree(wrf, wps)
    /\ \A i \in 1..Len(sync_options) :
          PyListEq(WpsEquivalent(sync_options[i], StoredVal(wrf, sync_options[i])),
                   StoredVal(wps, sync_options[i]))

\* what every edit through the container does to the state: r is [err, c]
Edited(r, call) ==
    /\ namelists' = [p \in Programs |-> NlOf(r.c, p)]
    /\ shared' = r.c.shared
    /\ last' = call
    /\ ever_raised' = (ever_raised \/ r.err # "")
    /\ edits' = edits + 1
    /\ UNCHANGED reg_vars

CanEdit == Running /\ edits < MaxEdits /\ DOMAIN namelists = Programs

LaterDate == DateTime(2020, 2, 28, 12, 0, 0)

LatestDate == DateTime(2020, 3, 1, 6, 30, 0)

\* the argument pairs of set_time_period: each form of argument occurs
TimePeriodArgs ==
    {<<ArgDateTime(LaterDate), ArgDateTime(LatestDate)>>,
     <<ArgDate(2020, 2, 29), ArgDate(2020, 3, 2)>>,
     <<ArgTime(6, 0, 0), ArgTime(18, 30, 0)>>,
     <<ArgDelta(TimeDelta(1, 0)), ArgDelta(TimeDelta(1, 3600))>>,
     <<ArgNone, ArgDateTime(LatestDate)>>,
     <<ArgDateTime(OtherStartDate), ArgNone>>}

\* set_time_period(args) returned or raised r; before_wrf and before_wps are
\* the periods of the two namelists before the call
TimePeriodEdited(args, r, before_wrf, before_wps) ==
    Edited(r, [op |-> "set_time_period", err |-> r.err, start_time |-> args[1],
               end_time |-> args[2],
               start_agreed |-> before_wrf.start = before_wps.start,
               end_agreed |-> before_wrf.end = before_wps.end])

\* nlc.set_time_period(start_time, end_time)
SetTimePeriod ==
    /\ CanEdit
    /\ \E args \in TimePeriodArgs :
          TimePeriodEdited(args, ContainerSetTimePeriod(AsContainer, args[1], args[2]),
                           get_time_period(namelists["WRF"]), get_time_period(namelists["WPS"]))

\* set_run_time(args) returned or raised r
RunTimeEdited(args, r) ==
    Edited(r, [op |-> "set_run_time", err |-> r.err, run_time |-> args[1],
               start_date |-> args[2]])

\* nlc.set_run_time(run_time, start_date)
SetRunTime ==
    /\ CanEdit
    /\ \E args \in {<<TimeDelta(1, 43200), ArgNone>>, <<TimeDelta(0, 21600), ArgDateTime(LaterDate)>>} :
          RunTimeEdited(args, ContainerSetRunTime(AsContainer, args[1], args[2]))

CmdCall(optname, optval, force_wrf_only) ==
    [optname |-> optname, optval |-> optval, force_wrf_only |-> force_wrf_only]

\* the calls of cmd_set_other_opt the model makes
CmdCalls ==
    {CmdCall("max_dom", Scalar(PyInt(n)), FALSE) : n \in 0..MaxNlcDom}
    \cup {CmdCall("e_we", Scalar(PyInt(50)), f) : f \in BOOLEAN}
    \cup {CmdCall("max_dom", Scalar(PyInt(MaxNlcDom)), TRUE),
          CmdCall("e_we", List(<<PyInt(51), PyInt(52)>>), FALSE),
          CmdCall("dx", Scalar(PyFloat(500, 1)), FALSE),
          CmdCall("dx", List(<<PyFloat(500, 1)>>), FALSE),
          CmdCall("start_year", Scalar(PyInt(2021)), FALSE),
          CmdCall("time_step", Scalar(PyInt(90)), FALSE),
          CmdCall("physics_suite", Scalar(PyStr(<<"x">>)), FALSE),
          CmdCall("map_proj", Scalar(PyStr(<<"'", "m", "'">>)), TRUE)}

\* the option names of the date family: the run time, the fields of the start
\* and of the end, and the two dates of the WPS namelist
DateFamily ==
    {"run_days", "run_hours", "run_minutes", "run_seconds",
     "start_year", "start_month", "start_day", "start_hour", "start_minute", "start_second",
     "end_year", "end_month", "end_day", "end_hour", "end_minute", "end_second",
     "start_date", "end_date"}

\* the domain-shared options
DomainShared ==
    {"max_dom", "parent_id", "parent_grid_ratio", "i_parent_start", "j_parent_start",
     "e_we", "e_sn", "dx", "dy"}

\* calls of cmd_set_other_opt for every option of the date family and every
\* domain-shared option
RestrictedCalls ==
    {CmdCall(optname, Scalar(PyInt(1)), FALSE) : optname \in DateFamily}
    \cup {CmdCall(optname, Scalar(PyInt(1)), f) : optname \in DomainShared, f \in BOOLEAN}

\* cmd_set_other_opt(call) returned or raised r
OtherOptEdited(call, r) ==
    Edited(r, [op |-> "cmd_set_other_opt", err |-> r.err, optname |-> call.optname,
               optval |-> call.optval, force_wrf_only |-> call.force_wrf_only,
               max_dom |-> max_domains(namelists["WRF"])])

\* nlc.cmd_set_other_opt(optname, optval, force_wrf_only=...)
CmdSetOtherOpt ==
    /\ CanEdit
    /\ \E call \in CmdCalls \cup RestrictedCalls :
          OtherOptEdited(call, cmd_set_other_opt(AsContainer, call.optname, call.optval,
                                                 call.force_wrf_only))

\* what the user enters in user_set_domain: a value for one option, nothing
\* for the others
DomainInputs ==
    {[o \in SeqRange(domain_opts) |-> IF o = one[1] THEN Input(one[2]) ELSE NoInput] :
        one \in {<<"max_dom", <<"2">>>>, <<"e_we", <<"@", "1", " ", "5", "0">>>>,
                 <<"dx", <<"5", "0", "0", ".", "0">>>>,
                 <<"parent_grid_ratio", <<"1", ",", "5">>>>,
                 <<"none", <<>>>>}}

\* user_set_domain() returned or raised r after the user entered inputs
DomainEdited(inputs, r) ==
    Edited(r, [op |-> "user_set_domain", err |-> r.err, inputs |-> inputs])

\* nlc.user_set_domain()
UserSetDomain ==
    /\ CanEdit
    /\ \E inputs \in DomainInputs : DomainEdited(inputs, user_set_domain(AsContainer, inputs))

Preset(program, sect, opt, text) ==
    [program |-> program, sect |-> sect, opt |-> opt, val |-> Scalar(PyStr(text))]

\* what get_met_presets returns for the met types of the model: the options of
\* the second include a synchronized one
MetPresets ==
    {<< Preset("WRF", "domains", "time_step", <<"1", "2", "0">>),
        Preset("WRF", "domains", "num_metgrid_levels", <<"2", "7">>),
        Preset("WPS", "share", "interval_seconds", <<"1", "0", "8", "0", "0">>) >>,
     << Preset("WPS", "share", "interval_seconds", <<"1", "0", "8", "0", "0">>),
        Preset("WPS", "geogrid", "e_we", <<"7", "7">>) >>}

\* set_met(met_type) returned or raised r; met_opts are the presets of met_type
MetEdited(met_opts, r) ==
    Edited(r, [op |-> "set_met", err |-> r.err, met_opts |-> met_opts])

\* nlc.set_met(met_type)
SetMet ==
    /\ CanEdit
    /\ \E met_opts \in MetPresets : MetEdited(met_opts, set_met(AsContainer, met_opts))

NextNLC ==
    \/ SetTimePeriod
    \/ SetRunTime
    \/ CmdSetOtherOpt
    \/ UserSetDomain
    \/ SetMet

SpecNLC == InitNLC /\ [][NextNLC]_vars

(***************************************************************************)
(* A script that makes cmd_set_other_opt calls only, on a container whose  *)
(* construction reconciled the two namelists.                              *)
(***************************************************************************)
\* the state after NamelistContainer(wrffile=..., wpsfile=..., sync_priority=...)
\* returned, for the priorities 'wrf' and 'wps'
InitCmd ==
    /\ \E files \in FilePairs : \E policy \in Policies :
          /\ policy.sync_priority \in {"wrf", "wps"}
          /\ ContainerConstructed(policy,
                                  NewContainer(files.wrffile, files.wpsfile,
                                               policy.sync_priority, policy.answers),
                                  NewNamelist("WRF", files.wrffile),
                                  NewNamelist("WPS", files.wpsfile))
    /\ ever_raised = FALSE
    /\ edits = 0
    /\ NoRegistry

\* the calls that are made to both namelists and ask for one domain or more
BothCalls ==
    {call \in CmdCalls :
        /\ ~call.force_wrf_only
        /\ call.optname = "max_dom" => call.optval.v[1].n >= 1}

\* nlc.cmd_set_other_opt(optname, optval), called again and again
CmdSetOtherOptAgain ==
    /\ Running
    /\ edits < MaxCmdEdits
    /\ \E call \in BothCalls :
          OtherOptEdited(call, cmd_set_other_opt(AsContainer, call.optname, call.optval,
                                                 call.force_wrf_only))

NextCmd == CmdSetOtherOptAgain

SpecCmd == InitCmd /\ [][NextCmd]_vars

(***************************************************************************)
(* _parse_option_input and match_option_length_to_domains on the inputs a  *)
(* user can type for an option of a WrfNamelist.                           *)
(***************************************************************************)
\* the options the inputs are parsed for: one per-domain option of each of
\* the types integer, real and logical, and two single-valued ones
ParseOpts == {"e_we", "diff_6th_factor", "input_from_file", "physics_suite", "time_step"}

ParseFileOpts == ParseOpts \cup {"max_dom"}

\* an @ command: none, a bare "@", "@N" or "@A:B" with either bound omittable
NoSel == [kind |-> "none", has_a |-> FALSE, a |-> 0, has_b |-> FALSE, b |-> 0]

BareSel == [kind |-> "bare", has_a |-> FALSE, a |-> 0, has_b |-> FALSE, b |-> 0]

OneSel(n) == [kind |-> "one", has_a |-> TRUE, a |-> n, has_b |-> FALSE, b |-> 0]

RangeSel(has_a, a, has_b, b) ==
    [kind |-> "range", has_a |-> has_a, a |-> IF has_a THEN a ELSE 0,
     has_b |-> has_b, b |-> IF has_b THEN b ELSE 0]

Selectors ==
    {NoSel, BareSel}
    \cup {OneSel(n) : n \in 0..(MaxParseDom + 1)}
    \cup {RangeSel(has_a, a, has_b, b) :
            has_a \in BOOLEAN, a \in 0..3, has_b \in BOOLEAN, b \in {0, 2, 3, MaxParseDom + 1}}

\* the text of an @ command as the user types it, with the blank after it
SelectorText(sel) ==
    CASE sel.kind = "none" -> <<>>
      [] sel.kind = "bare" -> <<"@", " ">>
      [] sel.kind = "one" -> <<"@">> \o NatText(sel.a) \o <<" ">>
      [] sel.kind = "range" ->
            <<"@">> \o (IF sel.has_a THEN NatText(sel.a) ELSE <<>>) \o <<":">>
            \o (IF sel.has_b THEN NatText(sel.b) ELSE <<>>) \o <<" ">>

RECURSIVE Join(_, _)
\* sep.join(pieces)
Join(pieces, sep) ==
    IF pieces = <<>> THEN <<>>
    ELSE IF Len(pieces) = 1 THEN pieces[1]
    ELSE pieces[1] \o sep \o Join(Tail(pieces), sep)

\* the values '1', '2', ..., 'k'
FirstDigits(k) == [i \in 1..k |-> NatText(i)]

\* the values of the type format test, with t/F, a second real and no value
FormatTokens ==
    { <<"1">>, <<"1", ".", "0">>, <<"5">>, <<"5", ".", "0">>,
      <<".", "f", "a", "l", "s", "e", ".">>, <<".", "t", "r", "u", "e", ".">>,
      <<"t">>, <<"F">>, <<"F", "a", "l", "s", "e">>,
      <<"'", "b", "o", "b", "'">>, <<"b", "o", "b">>, <<"\"", "b", "o", "b", "\"">>,
      <<>> }

ParseInput(sel, vals, sep, trailing) ==
    [sel |-> sel, vals |-> vals, sep |-> sep, trailing |-> trailing]

\* what the user types: an @ command or none, then the values
ParseInputs ==
    {ParseInput(sel, FirstDigits(k), <<",">>, FALSE) :
        sel \in Selectors, k \in 1..(MaxParseDom + 1)}
    \cup {ParseInput(sel, <<tok>>, <<",">>, FALSE) :
            sel \in {NoSel, OneSel(1), RangeSel(FALSE, 0, TRUE, 1)}, tok \in FormatTokens}
    \cup {ParseInput(sel, <<first, tok>>, <<",">>, FALSE) :
            sel \in {NoSel, RangeSel(TRUE, 1, TRUE, 2), RangeSel(FALSE, 0, TRUE, 2)},
            first \in {<<"1">>, <<"t">>},
            tok \in {<<"b", "o", "b">>, <<"1", ".", "0">>, <<"F">>}}
    \cup {ParseInput(NoSel, FirstDigits(k), <<",", " ">>, trailing) :
            k \in 1..2, trailing \in BOOLEAN}
    \cup {ParseInput(RangeSel(TRUE, 2, TRUE, 3), <<<<"5">>, <<"6">>>>, sep, FALSE) :
            sep \in {<<",">>, <<",", " ">>}}

InputText(in) ==
    SelectorText(in.sel) \o Join(in.vals, in.sep) \o (IF in.trailing THEN <<",">> ELSE <<>>)

\* the lists given to match_option_length_to_domains
MatchLists == {[i \in 1..k |-> PyInt(10 + i)] : k \in 0..(MaxParseDom + 1)}

\* a WrfNamelist of 1 to MaxParseDom domains, as constructed from its file
InitParse ==
    /\ \E md \in 1..MaxParseDom :
          Constructed("WRF", NewNamelist("WRF", Only(WrfFile(md, md, 0, StartDate, EndDate, <<>>),
                                                     ParseFileOpts)))
    /\ shared = {}
    /\ last = [op |-> "__init__", err |-> ""]
    /\ ever_raised = FALSE
    /\ edits = 0
    /\ NoRegistry

\* neither operation changes the namelist or depends on an earlier call: the
\* model follows each namelist up to its first call
Fresh == last.op = "__init__"

\* _parse_option_input(nl, optname, the text of in) returned or raised r
ParseReturned(nl, optname, in, r) ==
    /\ Fresh
    /\ namelists' = [namelists EXCEPT !["WRF"] = r.nl]
    /\ last' = [op |-> "_parse_option_input", optname |-> optname,
                input_str |-> InputText(in), sel |-> in.sel, vals |-> in.vals,
                curr |-> StoredVal(nl, optname), max_dom |-> max_domains(nl),
                err |-> r.err, msg |-> r.msg, ret |-> r.v]
    /\ UNCHANGED <<shared, ever_raised, edits, reg_vars>>

\* _parse_option_input(namelist, optname, input_str) on the WRF namelist
Parse ==
    \E optname \in ParseOpts : \E in \in ParseInputs :
        ParseReturned(namelists["WRF"], optname, in,
                      _parse_option_input(namelists["WRF"], optname, InputText(in)))

\* match_option_length_to_domains of nl returned or raised r
MatchReturned(nl, optval, error_if_too_long, trim_extra, r) ==
    /\ Fresh
    /\ last' = [op |-> "match_option_length_to_domains", optval |-> optval,
                error_if_too_long |-> error_if_too_long, trim_extra |-> trim_extra,
                max_dom |-> max_domains(nl), err |-> r.err, msg |-> r.msg,
                ret |-> IF r.err = "" THEN r.v ELSE <<>>]
    /\ UNCHANGED <<namelists, shared, ever_raised, edits, reg_vars>>

\* match_option_length_to_domains(optval, error_if_too_long, trim_extra)
Match ==
    \E optval \in MatchLists : \E error_if_too_long \in BOOLEAN : \E trim_extra \in BOOLEAN :
        MatchReturned(namelists["WRF"], optval, error_if_too_long, trim_extra,
                      match_option_length_to_domains(namelists["WRF"], List(optval),
                                                     error_if_too_long, trim_extra))

NextParse ==
    \/ Parse
    \/ Match

SpecParse == InitParse /\ [][NextParse]_vars

(***************************************************************************)
(* match_option_length_to_domains on namelists of every max_dom a file can *)
(* give, zero and negative ones too.                                       *)
(***************************************************************************)
\* the options of a namelist.input without per-domain options
ScalarFileOpts == {"max_dom", "time_step", "physics_suite"}

\* a WrfNamelist as constructed from its file: a file with per-domain options
\* and a negative max_dom is refused by the constructor
InitMatch ==
    /\ \E md \in (0 - 1)..MaxMatchDom : \E names \in {WrfFileOpts, ScalarFileOpts} :
          Constructed("WRF", NewNamelist("WRF", Only(WrfFile(md, IF md > 0 THEN md ELSE 1, 0,
                                                             StartDate, EndDate, <<>>),
                                                     names)))
    /\ shared = {}
    /\ last = [op |-> "__init__", err |-> ""]
    /\ ever_raised = FALSE
    /\ edits = 0
    /\ NoRegistry

NextMatch == Match

SpecMatch == InitMatch /\ [][NextMatch]_vars

(***************************************************************************)
(* Reads and writes of the options of a WrfNamelist whose file may hold an *)
(* option in two sections.                                                 *)
(***************************************************************************)
\* a namelist.input that holds time_step in the section physics too
TwiceFile(file_opts) == file_opts \o <<Opt("physics", "time_step", FALSE, <<PyInt(30)>>)>>

\* the state after WrfNamelist(file) returned
InitLookup ==
    /\ \E md \in 1..MaxDom : \E twice \in BOOLEAN :
          Constructed("WRF",
                      NewNamelist("WRF",
                                  IF twice
                                  THEN TwiceFile(Only(WrfFile(md, md, 0, StartDate, EndDate, <<>>),
                                                      WrfFileOpts))
                                  ELSE Only(WrfFile(md, md, 0, StartDate, EndDate, <<>>),
                                            WrfFileOpts)))
    /\ shared = {}
    /\ last = [op |-> "__init__", err |-> ""]
    /\ ever_raised = FALSE
    /\ edits = 0
    /\ NoRegistry

\* the options the reads name
GetOpts == {"max_dom", "e_we", "time_step", "no_such_opt"}

\* the value the section holds for the option, <<>> when it holds none
StoredIn(nl, sectname, optname) ==
    IF OptIdx(nl, sectname, optname) = 0 THEN <<>>
    ELSE nl.opts[OptIdx(nl, sectname, optname)].val

\* the read op of the WRF namelist returned or raised r; domainnum 0 stands
\* for a call without domainnum
Got(op, sectname, optname, domainnum, r) ==
    /\ namelists' = [namelists EXCEPT !["WRF"] = r.nl]
    /\ last' = [op |-> op, program |-> "WRF", sectname |-> sectname, optname |-> optname,
                domainnum |-> domainnum, err |-> r.err, ret |-> r.v,
                stored |-> StoredIn(namelists["WRF"], sectname, optname)]
    /\ ever_raised' = (ever_raised \/ r.err # "")
    /\ UNCHANGED <<shared, edits, reg_vars>>

\* a read leaves the namelist as it is: the model follows a script up to its
\* first read
Unread == last.op \notin {"get_opt_val", "get_opt_val_no_sect"}

\* namelist.get_opt_val(sectname, optname, domainnum=...)
GetOptVal ==
    /\ Running
    /\ Unread
    /\ \E optname \in GetOpts : \E sectname \in SectionsFor(namelists["WRF"], optname) :
          \E domainnum \in 0..(MaxDom + 2) :
              Got("get_opt_val", sectname, optname, domainnum,
                  get_opt_val(namelists["WRF"], sectname, optname, domainnum, FALSE))

\* namelist.get_opt_val_no_sect(optname, domainnum=...)
GetOptValNoSect ==
    /\ Running
    /\ Unread
    /\ \E optname \in GetOpts : \E domainnum \in 0..(MaxDom + 2) :
          Got("get_opt_val_no_sect", NoSect, optname, domainnum,
              get_opt_val_no_sect(namelists["WRF"], optname, domainnum, FALSE))

NextLookup ==
    \/ GetOptVal
    \/ GetOptValNoSect
    \/ Unread /\ SetOptVal("WRF")
    \/ Unread /\ SetOptValNoSect("WRF")

SpecLookup == InitLookup /\ [][NextLookup]_vars

(***************************************************************************)
(* Registry: reading a registry file and the files it includes.            *)
(***************************************************************************)
\* A line of a registry file, as _parse_reg_file sees it once the comment is
\* removed and the line is split at white space: entry is its first word.
\* The word after ifdef is kept as the two sides of its "=", and the how_set
\* column of an rconfig line as its parts between commas.
IfdefLine(varname, state) == [entry |-> "ifdef", varname |-> varname, state |-> state]

EndifLine == [entry |-> "endif"]

IncludeLine(file) == [entry |-> "include", file |-> file]

RconfigLine(type, symbol, how_set, num_entries, default) ==
    [entry |-> "rconfig", cols |-> <<"rconfig", type, symbol, how_set, num_entries, default>>]

\* a line that is empty once its comment is removed
BlankLine == [entry |-> ""]

\* a line of an entry type the reader was not asked for
StateLine == [entry |-> "state"]

\* the default entry_types of Registry.__init__
EntryTypes == {"rconfig"}

\* the file Registry is constructed on
TopFile == "Registry"

\* check_envvar of _parse_reg_file: a variable the configuration does not
\* define is in state '0'
check_envvar(config, varname, state) ==
    LET env_state == IF varname \in DOMAIN config THEN config[varname] ELSE "0"
    IN  env_state = state

\* parse_how_set of _add_rconfig: the value is a Python set
parse_how_set(val) ==
    IF Len(val) = 1 /\ val[1] = "derived"
    THEN [err |-> "", v |-> {"how", val[1], "section", NoSect}]
    ELSE IF Len(val) = 2 /\ val[1] = "namelist"
    THEN [err |-> "", v |-> {"how", val[1], "section", val[2]}]
    ELSE [err |-> "NotImplementedError", v |-> {}]

\* the columns of an rconfig line and the function that parses each
\* (names_and_parsers of _add_rconfig); the first column is ignored
RconfigColumns ==
    <<[name |-> NoSect, parser |-> NoSect], [name |-> "type", parser |-> "str"],
      [name |-> "symbol", parser |-> "str"], [name |-> "how_set", parser |-> "parse_how_set"],
      [name |-> "num_entries", parser |-> "str"], [name |-> "default", parser |-> "str"]>>

\* parser(column)
ParsedColumn(parser, column) ==
    IF parser = "parse_how_set" THEN parse_how_set(column) ELSE [err |-> "", v |-> column]

\* d[key] = val of a Python dict
DictPut(d, key, val) == [k \in DOMAIN d \cup {key} |-> IF k = key THEN val ELSE d[k]]

\* d.update(new) of a Python dict: the keys of new replace those of d
DictUpdate(d, new) ==
    [k \in DOMAIN d \cup DOMAIN new |-> IF k \in DOMAIN new THEN new[k] ELSE d[k]]

\* _parse_reg_line(entry_dict, reg_line, key_ind, names_and_parsers): the
\* dictionary it leaves, the entry it parsed and whether it printed the
\* message "Entry already exists"
_parse_reg_line(entry_dict, reg_line, key_ind, names_and_parsers) ==
    LET named == {i \in 1..Len(names_and_parsers) : names_and_parsers[i].name # NoSect}
        parsed == [i \in named |->
                      IF i <= Len(reg_line)
                      THEN ParsedColumn(names_and_parsers[i].parser, reg_line[i])
                      ELSE [err |-> "IndexError", v |-> {}]]
        failed == {i \in named : parsed[i].err # ""}
        first_failed == CHOOSE i \in failed : \A j \in failed : i <= j
    IN  IF Len(reg_line) < key_ind + 1
        THEN [err |-> "IndexError", dict |-> entry_dict, key |-> NoSect, line_dict |-> <<>>,
              logged |-> FALSE]
        ELSE IF failed # {}
        THEN [err |-> parsed[first_failed].err, dict |-> entry_dict, key |-> reg_line[key_ind + 1],
              line_dict |-> <<>>, logged |-> FALSE]
        ELSE LET key == reg_line[key_ind + 1]
                 line_dict == [name \in {names_and_parsers[i].name : i \in named} |->
                                  parsed[CHOOSE i \in named : names_and_parsers[i].name = name].v]
             IN  IF key \in DOMAIN entry_dict
                 THEN [err |-> "", dict |-> entry_dict, key |-> key, line_dict |-> line_dict,
                       logged |-> TRUE]
                 ELSE [err |-> "", dict |-> DictPut(entry_dict, key, line_dict), key |-> key,
                       line_dict |-> line_dict, logged |-> FALSE]

\* _add_rconfig(rconfig_dict, reg_line)
_add_rconfig(rconfig_dict, reg_line) == _parse_reg_line(rconfig_dict, reg_line, 2, RconfigColumns)

\* the rconfig lines of the registry files: two definitions of a, one of b
\* in the top file, a third definition of a and one of c in the included file
RconfigA1 == RconfigLine("integer", "a", <<"namelist", "physics">>, "1", "1")

RconfigA2 == RconfigLine("integer", "a", <<"namelist", "physics">>, "max_domains", "2")

RconfigA3 == RconfigLine("real", "a", <<"derived">>, "1", "3")

RconfigB == RconfigLine("logical", "b", <<"namelist", "domains">>, "1", ".false.")

RconfigC == RconfigLine("character", "c", <<"derived">>, "1", "x")

IncFile == "registry.inc"

\* the lines the top file is made of
TopLines ==
    {IfdefLine("V", "1"), IfdefLine("V", "0"), EndifLine, RconfigA1, RconfigA2, RconfigB,
     IncludeLine(IncFile)}

RECURSIVE OpenAfter(_, _)
\* the number of ifdef lines of lines that no endif has closed, -1 when an
\* endif has no ifdef before it
OpenAfter(lines, n) ==
    IF n = 0 THEN 0
    ELSE LET before == OpenAfter(lines, n - 1)
         IN  IF before < 0 THEN -1
             ELSE IF lines[n].entry = "ifdef" THEN before + 1
             ELSE IF lines[n].entry = "endif" THEN before - 1
             ELSE before

\* every ifdef of the file has its endif
Balanced(lines) == OpenAfter(lines, Len(lines)) = 0

\* the top files: the balanced files of up to MaxRegLines lines
TopFiles ==
    {lines \in UNION {[1..n -> TopLines] : n \in 0..MaxRegLines} : Balanced(lines)}

\* the included file: absent, or one of these
IncFiles ==
    {<<RconfigA3>>,
     <<StateLine, RconfigC, BlankLine>>,
     <<IfdefLine("V", "1"), RconfigA3, EndifLine, RconfigB>>}

\* the registry directories
RegistryDirs ==
    {[f \in {TopFile} |-> top] : top \in TopFiles}
    \cup {[f \in {TopFile, IncFile} |-> IF f = TopFile THEN top ELSE inc] :
            top \in TopFiles, inc \in IncFiles}

\* the ENVIRONMENT sections: V undefined, or defined as 1
EnvConfigs == {<<>>, [v \in {"V"} |-> "1"]}

\* Registry(registry_file, envvar_config) has been called and has read nothing yet
InitReg ==
    /\ namelists = <<>>
    /\ shared = {}
    /\ last = [op |-> "Registry", err |-> ""]
    /\ ever_raised = FALSE
    /\ edits = 0
    /\ reg_files \in RegistryDirs
    /\ envvar_config \in EnvConfigs
    /\ frames = <<>>
    /\ registry = [state |-> "new"]
    /\ reg_trace = <<>>

nl_vars == <<namelists, shared, last, ever_raised, edits>>

\* an exception leaves _parse_reg_file and every call above it
RegRaised(err) ==
    /\ frames' = <<>>
    /\ registry' = [state |-> "raised", err |-> err]

\* _parse_reg_file(reg_file) up to its loop, called with the calls stack in
\* progress: the file must exist; reg_dict is empty, skipping is off and the
\* file is on _file_stack with line number 0
Entered(stack, reg_file) ==
    IF reg_file \notin DOMAIN reg_files
    THEN RegRaised("RegistryIOError")
    ELSE /\ frames' = Append(stack, [line_no |-> 0, reg_file |-> reg_file, skipping |-> FALSE,
                                     reg_dict |-> [k \in EntryTypes |-> <<>>]])
         /\ registry' = [state |-> "parsing"]

\* Registry.__init__ calls _parse_reg_file(registry_file)
ParseRegFile ==
    /\ registry.state = "new"
    /\ Entered(frames, TopFile)
    /\ UNCHANGED <<nl_vars, reg_files, envvar_config, reg_trace>>

\* the innermost call of _parse_reg_file
Reading == frames[Len(frames)]

\* the loop of the innermost call has a line to read
HasLine == frames # <<>> /\ Reading.line_no < Len(reg_files[Reading.reg_file])

\* the line the loop reads next
Line == reg_files[Reading.reg_file][Reading.line_no + 1]

\* the innermost call after the loop read a line and left skipping and reg_dict so
Stepped(skipping, reg_dict) ==
    [frames EXCEPT ![Len(frames)] = [line_no |-> Reading.line_no + 1, reg_file |-> Reading.reg_file,
                                     skipping |-> skipping, reg_dict |-> reg_dict]]

\* one iteration of the loop changed nothing but the frame
Read(skipping, reg_dict) ==
    /\ frames' = Stepped(skipping, reg_dict)
    /\ UNCHANGED <<nl_vars, reg_files, envvar_config, registry, reg_trace>>

\* the line is empty without its comment: continue
ReadBlank ==
    /\ HasLine
    /\ Line.entry = ""
    /\ Read(Reading.skipping, Reading.reg_dict)

\* an ifdef line met while not skipping: skip from here unless the condition holds
ReadIfdef ==
    /\ HasLine
    /\ ~Reading.skipping
    /\ Line.entry = "ifdef"
    /\ Read(~check_envvar(envvar_config, Line.varname, Line.state), Reading.reg_dict)

\* an endif line: stop skipping
ReadEndif ==
    /\ HasLine
    /\ Line.entry = "endif"
    /\ Read(FALSE, Reading.reg_dict)

\* any other line met while skipping is passed over, an ifdef line too
ReadSkipped ==
    /\ HasLine
    /\ Reading.skipping
    /\ Line.entry \notin {"", "endif"}
    /\ Read(Reading.skipping, Reading.reg_dict)

\* an include line met while not skipping: _add_reg_include calls
\* _parse_reg_file on the file named, in the directory of the reading file
ReadInclude ==
    /\ HasLine
    /\ ~Reading.skipping
    /\ Line.entry = "include"
    /\ Entered(Stepped(Reading.skipping, Reading.reg_dict), Line.file)
    /\ UNCHANGED <<nl_vars, reg_files, envvar_config, reg_trace>>

\* an rconfig line met while not skipping: _add_rconfig
ReadRconfig ==
    /\ HasLine
    /\ ~Reading.skipping
    /\ Line.entry = "rconfig"
    /\ Line.entry \in EntryTypes
    /\ LET r == _add_rconfig(Reading.reg_dict["rconfig"], Line.cols)
       IN  IF r.err # ""
           THEN /\ RegRaised(r.err)
                /\ UNCHANGED reg_trace
           ELSE /\ frames' = Stepped(Reading.skipping,
                                     [Reading.reg_dict EXCEPT !["rconfig"] = r.dict])
                /\ reg_trace' = Append(reg_trace,
                                       [key |-> r.key, line_dict |-> r.line_dict,
                                        reg_file |-> Reading.reg_file,
                                        line_no |-> Reading.line_no + 1, logged |-> r.logged])
                /\ UNCHANGED registry
    /\ UNCHANGED <<nl_vars, reg_files, envvar_config>>

\* a line of another entry type met while not skipping: passed over unless
\* the type is one the reader was asked for
ReadOther ==
    /\ HasLine
    /\ ~Reading.skipping
    /\ Line.entry \notin {"", "ifdef", "endif", "include", "rconfig"}
    /\ IF Line.entry \in EntryTypes
       THEN /\ RegRaised("NotImplementedError")
            /\ UNCHANGED <<nl_vars, reg_files, envvar_config, reg_trace>>
       ELSE Read(Reading.skipping, Reading.reg_dict)

\* the end of the file: _parse_reg_file pops _file_stack and returns reg_dict,
\* to __init__, which stores it, or to _add_reg_include, which updates the
\* dictionary of the including file with it, entry type by entry type
EndOfFile ==
    /\ frames # <<>>
    /\ ~HasLine
    /\ IF Len(frames) = 1
       THEN /\ frames' = <<>>
            /\ registry' = [state |-> "done", table |-> Reading.reg_dict]
       ELSE /\ LET caller == frames[Len(frames) - 1]
                   new_dict == Reading.reg_dict
               IN  frames' = [SubSeq(frames, 1, Len(frames) - 1) EXCEPT
                                 ![Len(frames) - 1] =
                                     [caller EXCEPT !.reg_dict =
                                         [key \in DOMAIN caller.reg_dict |->
                                             DictUpdate(caller.reg_dict[key], new_dict[key])]]]
            /\ UNCHANGED registry
    /\ UNCHANGED <<nl_vars, reg_files, envvar_config, reg_trace>>

NextReg ==
    \/ ParseRegFile
    \/ ReadBlank
    \/ ReadIfdef
    \/ ReadEndif
    \/ ReadSkipped
    \/ ReadInclude
    \/ ReadRconfig
    \/ ReadOther
    \/ EndOfFile

SpecReg == InitReg /\ [][NextReg]_vars

(***************************************************************************)
(* Registry.lookup_reg_entry on a registry that has been read.             *)
(***************************************************************************)
\* str.lower() of the entry types and names that are looked up; every other
\* word of the model is in lower case already
LowerWord(word) ==
    CASE word = "A" -> "a"
      [] word = "B" -> "b"
      [] word = "RCONFIG" -> "rconfig"
      [] OTHER -> word

\* find_key_case_insensitive of _find_entry_case_insensitive: the keys of
\* dict_in that are dict_key but for the letter case (the code lists their values)
find_key_case_insensitive(dict_in, dict_key) ==
    {key \in DOMAIN dict_in : LowerWord(key) = LowerWord(dict_key)}

\* the entries _find_entry_case_insensitive collects, each by the key of its
\* entry type and its own key
EntriesFound(table, reg_type, entry_name) ==
    UNION {{<<etype, key>> : key \in find_key_case_insensitive(table[etype], entry_name)} :
              etype \in find_key_case_insensitive(table, reg_type)}

\* an entry of several found, as FindFirstOfSeveral returns it
FirstFound(table, entries) ==
    LET pair == CHOOSE e \in entries : TRUE
    IN  table[pair[1]][pair[2]]

\* a lookup that returns one of several matching entries
FindFirstOfSeveral(table, reg_type, entry_name, error_if_multiple) ==
    LET entries == EntriesFound(table, reg_type, entry_name)
    IN  IF Cardinality(entries) < 1 THEN [err |-> "KeyError", v |-> <<>>]
        ELSE [err |-> "", v |-> <<FirstFound(table, entries)>>]

\* _find_entry_case_insensitive(reg_type, entry_name, error_if_multiple) on
\* the table of a registry; v holds what is returned: the entry, or with
\* error_if_multiple off the entries found
_find_entry_case_insensitive(table, reg_type, entry_name, error_if_multiple) ==
    LET entries == EntriesFound(table, reg_type, entry_name)
    IN  IF error_if_multiple /\ Cardinality(entries) > 1 THEN [err |-> "KeyError", v |-> <<>>]
        ELSE IF Cardinality(entries) < 1 THEN [err |-> "KeyError", v |-> <<>>]
        ELSE IF error_if_multiple THEN [err |-> "", v |-> <<FirstFound(table, entries)>>]
        ELSE [err |-> "", v |-> <<{table[e[1]][e[2]] : e \in entries}>>]

\* lookup_reg_entry(entry_type, entry_name, match_case) on the table of a registry
lookup_reg_entry(table, entry_type, entry_name, match_case) ==
    IF ~match_case THEN _find_entry_case_insensitive(table, entry_type, entry_name, TRUE)
    ELSE IF entry_type \notin DOMAIN table THEN [err |-> "KeyError", v |-> <<>>]
    ELSE IF entry_name \notin DOMAIN table[entry_type] THEN [err |-> "KeyError", v |-> <<>>]
    ELSE [err |-> "", v |-> <<table[entry_type][entry_name]>>]

\* an rconfig line that defines A, a name that is a but for the letter case
RconfigUpperA == RconfigLine("logical", "A", <<"namelist", "dynamics">>, "1", ".true.")

\* the registry files that are looked up in: rconfig lines only
LookupFiles ==
    UNION {[1..n -> {RconfigA1, RconfigA2, RconfigB, RconfigUpperA}] : n \in 0..MaxLookupLines}

RECURSIVE ReadRconfigLines(_, _)
\* what Registry(registry_file, envvar_config) leaves of the first n lines of
\* a file of rconfig lines: the rconfig dictionary and the calls of
\* _parse_reg_line made
ReadRconfigLines(lines, n) ==
    IF n = 0 THEN [dict |-> <<>>, trace |-> <<>>]
    ELSE LET before == ReadRconfigLines(lines, n - 1)
             r == _add_rconfig(before.dict, lines[n].cols)
         IN  [dict |-> r.dict,
              trace |-> Append(before.trace,
                               [key |-> r.key, line_dict |-> r.line_dict, reg_file |-> TopFile,
                                line_no |-> n, logged |-> r.logged])]

\* the state after Registry(registry_file, envvar_config) returned
InitRegLookup ==
    /\ namelists = <<>>
    /\ shared = {}
    /\ last = [op |-> "Registry", err |-> ""]
    /\ ever_raised = FALSE
    /\ edits = 0
    /\ \E lines \in LookupFiles :
          /\ reg_files = [f \in {TopFile} |-> lines]
          /\ registry = [state |-> "done",
                         table |-> [k \in EntryTypes |-> ReadRconfigLines(lines, Len(lines)).dict]]
          /\ reg_trace = ReadRconfigLines(lines, Len(lines)).trace
    /\ envvar_config \in EnvConfigs
    /\ frames = <<>>

\* the entry types and the names that are looked up
LookupTypes == {"rconfig", "RCONFIG", "state"}

LookupNames == {"a", "A", "b", "B", "z"}

\* registry.lookup_reg_entry(entry_type, entry_name, match_case=...); the
\* registry is as it was, so the model follows it up to its first lookup
LookupRegEntry ==
    /\ registry.state = "done"
    /\ last.op = "Registry"
    /\ \E entry_type \in LookupTypes : \E entry_name \in LookupNames : \E match_case \in BOOLEAN :
          LET r == lookup_reg_entry(registry.table, entry_type, entry_name, match_case)
          IN  last' = [op |-> "lookup_reg_entry", entry_type |-> entry_type,
                       entry_name |-> entry_name, match_case |-> match_case,
                       err |-> r.err, ret |-> r.v]
    /\ ever_raised' = (ever_raised \/ last'.err # "")
    /\ UNCHANGED <<namelists, shared, edits, reg_vars>>

NextRegLookup == LookupRegEntry

SpecRegLookup == InitRegLookup /\ [][NextRegLookup]_vars

(***************************************************************************)
(* Namelist of CONFIG/autowrf_classlib.py: ReadNamelist and WriteNamelist, *)
(* on files as the lines of text they hold.                                *)
(***************************************************************************)
\* Namelist.opt_field_width
opt_field_width == 36

\* Namelist.opt_val_width
opt_val_width == 8

\* " " * n
Spaces(n) == [i \in 1..n |-> " "]

\* od[key] = val of an OrderedDict, kept as the sequence of its items: a key
\* it has keeps its place
OrderedSet(od, key, val) ==
    IF \E i \in 1..Len(od) : od[i].key = key
    THEN [i \in 1..Len(od) |-> IF od[i].key = key THEN [key |-> key, val |-> val] ELSE od[i]]
    ELSE Append(od, [key |-> key, val |-> val])

\* od[key] of an OrderedDict that has key
OrderedGet(od, key) == od[CHOOSE i \in 1..Len(od) : od[i].key = key].val

\* list.remove(""): the list without its first empty text, or as it is
RemoveFirstEmpty(optvals) ==
    IF \A i \in 1..Len(optvals) : optvals[i] # <<>> THEN optvals
    ELSE LET i == CHOOSE j \in 1..Len(optvals) :
                      optvals[j] = <<>> /\ \A h \in 1..(j - 1) : optvals[h] # <<>>
         IN  SubSeq(optvals, 1, i - 1) \o SubSeq(optvals, i + 1, Len(optvals))

RECURSIVE LegacyReadLines(_, _)
\* the loop of Namelist.ReadNamelist over the first n lines of a file: the
\* exception raised, the section being read and opts
LegacyReadLines(lines, n) ==
    IF n = 0 THEN [err |-> "", sectname |-> <<>>, opts |-> <<>>]
    ELSE LET before == LegacyReadLines(lines, n - 1)
             line == Strip(lines[n], Whitespace)
             lsplit == Split(line, "=")
             optname == Strip(lsplit[1], Whitespace)
             pieces == Split(lsplit[2], ",")
             optvals == RemoveFirstEmpty([i \in 1..Len(pieces) |-> Strip(pieces[i], Whitespace)])
         IN  IF before.err # "" THEN before
             ELSE IF line = <<>> THEN before
             ELSE IF line[1] = "/" THEN before
             ELSE IF line[1] = "&"
             THEN [err |-> "", sectname |-> Tail(line),
                   opts |-> OrderedSet(before.opts, Tail(line), <<>>)]
             ELSE IF Len(lsplit) < 2 THEN [before EXCEPT !.err = "IndexError"]
             ELSE IF \A i \in 1..Len(before.opts) : before.opts[i].key # before.sectname
             THEN [before EXCEPT !.err = "KeyError"]
             ELSE [before EXCEPT
                      !.opts = OrderedSet(before.opts, before.sectname,
                                          OrderedSet(OrderedGet(before.opts, before.sectname),
                                                     optname, optvals))]

\* Namelist(namelist_file) of CONFIG/autowrf_classlib.py: [err, opts]
LegacyReadNamelist(lines) ==
    LET r == LegacyReadLines(lines, Len(lines))
    IN  [err |-> r.err, opts |-> IF r.err = "" THEN r.opts ELSE <<>>]

RECURSIVE LegacyWriteVals(_)
\* the values of an option as WriteNamelist writes them, each with its comma
\* and padded to opt_val_width
LegacyWriteVals(optvals) ==
    IF optvals = <<>> THEN <<>>
    ELSE Head(optvals) \o <<",">> \o Spaces(opt_val_width - Len(Head(optvals)) - 1)
         \o LegacyWriteVals(Tail(optvals))

\* the line WriteNamelist writes for an option
LegacyWriteOpt(optname, optvals) ==
    <<" ">> \o optname \o Spaces(opt_field_width - Len(optname) - 1) \o <<"=", " ">>
    \o LegacyWriteVals(optvals)

RECURSIVE LegacyWriteNamelist(_)
\* the lines Namelist.WriteNamelist writes for opts
LegacyWriteNamelist(opts) ==
    IF opts = <<>> THEN <<>>
    ELSE LET sect == Head(opts)
         IN  <<<<"&">> \o sect.key>>
             \o [i \in 1..Len(sect.val) |-> LegacyWriteOpt(sect.val[i].key, sect.val[i].val)]
             \o <<<<" ", "/">>, <<>>>>
             \o LegacyWriteNamelist(Tail(opts))

\* the lines the namelist files are made of: a section, options with one and
\* two values, with and without blanks, with empty values and with a value
\* that holds "=", the end of a section, an empty line and a line without "="
FileLines ==
    {<<"&", "s">>,
     <<"a", "=", "1", ",">>,
     <<" ", "a", " ", "=", " ", "1", ",", " ", "2">>,
     <<"b", "=", ",", ",", "2">>,
     <<"b", "=", "'", "x", "=", "y", "'">>,
     <<"/">>,
     <<>>,
     <<"c">>}

\* the namelist files
NamelistFiles == UNION {[1..n -> FileLines] : n \in 0..MaxFileLines}

\* a namelist file is on disk and no Namelist has been made of it
InitFile ==
    /\ namelists = <<>>
    /\ shared = {}
    /\ \E lines \in NamelistFiles :
          last = [op |-> "file", file |-> lines, err |-> "", opts |-> <<>>, written |-> <<>>]
    /\ ever_raised = FALSE
    /\ edits = 0
    /\ NoRegistry

\* nl = Namelist(namelist_file) on the file as it is on disk
LegacyRead ==
    /\ last.op \in {"file", "WriteNamelist"}
    /\ LET r == LegacyReadNamelist(last.file)
       IN  /\ last' = [op |-> "ReadNamelist", file |-> last.file, err |-> r.err, opts |-> r.opts,
                       written |-> last.written]
           /\ ever_raised' = (ever_raised \/ r.err # "")
    /\ UNCHANGED <<namelists, shared, edits, reg_vars>>

\* nl.WriteNamelist(namelist_file) over the file that was read; written holds
\* the opts of each write so far, and the model follows two writes
LegacyWrite ==
    /\ last.op = "ReadNamelist"
    /\ last.err = ""
    /\ Len(last.written) < 2
    /\ last' = [op |-> "WriteNamelist", file |-> LegacyWriteNamelist(last.opts), err |-> "",
                opts |-> last.opts, written |-> Append(last.written, last.opts)]
    /\ UNCHANGED <<namelists, shared, ever_raised, edits, reg_vars>>

NextFile ==
    \/ LegacyRead
    \/ LegacyWrite

SpecFile == InitFile /\ [][NextFile]_vars

(***************************************************************************)
(* A WrfNamelist whose time period is set.                                 *)
(***************************************************************************)
\* the options of the namelist.input files whose time period is set
WrfTimeFileOpts ==
    SeqRange(WrfRunFields) \cup SeqRange(WrfStartFields) \cup SeqRange(WrfEndFields)
    \cup {"max_dom", "gfdda_end_h"}

\* an end of the run that is not a whole number of hours after StartDate
HalfPastEnd == DateTime(2020, 1, 2, 0, 30, 0)

\* the namelist.input files: a run of 24 hours or of 24 hours and a half,
\* without gfdda_end_h or with it within an hour of that or not
WrfTimeFiles ==
    {Only(WrfFile(md, md, 0, StartDate, end, <<>>), WrfTimeFileOpts) :
        md \in 1..MaxTimeDom, end \in {EndDate, HalfPastEnd}}
    \cup {Only(WrfFile(md, md, 0, StartDate, end, fdda), WrfTimeFileOpts) :
            md \in 1..MaxTimeDom, end \in {EndDate, HalfPastEnd}, fdda \in {<<23>>, <<24>>, <<25>>, <<30>>}}

\* the state after WrfNamelist(file, registry) returned
InitWrfTime ==
    /\ \E file_opts \in WrfTimeFiles : Constructed("WRF", NewNamelist("WRF", file_opts))
    /\ shared = {}
    /\ last = [op |-> "__init__", err |-> ""]
    /\ ever_raised = FALSE
    /\ edits = 0
    /\ NoRegistry

\* the argument pairs of WrfNamelist.set_time_period: each form of argument,
\* an end that is the start, and a start an hour after the end
WrfTimePeriodArgs ==
    TimePeriodArgs
    \cup {<<ArgNone, ArgDelta(TimeDelta(-1, 0))>>,
          <<ArgDelta(TimeDelta(1, 3600)), ArgNone>>,
          <<ArgNone, ArgNone>>}

\* the call op on the WRF namelist returned or raised r; the call is recorded
\* with the period and the gfdda_end_h the namelist had before it
WrfTimeCalled(op, args, r) ==
    /\ namelists' = [namelists EXCEPT !["WRF"] = r.nl]
    /\ last' = [op |-> op, err |-> r.err, args |-> args,
                before |-> WrfGetTimePeriod(namelists["WRF"]),
                gfdda_before |-> StoredVal(namelists["WRF"], "gfdda_end_h")]
    /\ ever_raised' = (ever_raised \/ r.err # "")
    /\ edits' = edits + 1
    /\ UNCHANGED <<shared, reg_vars>>

\* wrf_namelist.set_time_period(start_date, end_date)
WrfSetTimePeriodCall ==
    /\ Running
    /\ edits < MaxTimeEdits
    /\ \E args \in WrfTimePeriodArgs :
          WrfTimeCalled("set_time_period", args,
                        WrfSetTimePeriod(namelists["WRF"], args[1], args[2]))

\* wrf_namelist.set_opt_val("fdda", "gfdda_end_h", 5): gfdda_end_h set by hand
WrfSetFddaByHand ==
    /\ Running
    /\ edits < MaxTimeEdits
    /\ LET r == set_opt_val(namelists["WRF"], "fdda", "gfdda_end_h", Scalar(PyInt(5)), FALSE, FALSE)
       IN  WrfTimeCalled("set_opt_val", <<PyInt(5)>>, [err |-> r.err, nl |-> r.nl])

NextWrfTime ==
    \/ WrfSetTimePeriodCall
    \/ WrfSetFddaByHand

SpecWrfTime == InitWrfTime /\ [][NextWrfTime]_vars

(***************************************************************************)
(* WpsNamelist.AdjustMapProjOpts on a WpsNamelist whose geogrid section    *)
(* holds some of the projection options.                                   *)
(***************************************************************************)
\* all_opts of MapProjOptions
all_opts == <<"truelat1", "truelat2", "stand_lon", "pole_lat", "pole_lon">>

\* WpsNamelist.MapProjOptions: proj_opts, a tuple of names, the string
\* 'truelat1' for mercator (the parentheses make no tuple), None for a
\* projection that is not recognized
MapProjOptions(map_proj) ==
    CASE map_proj = "lambert" -> [kind |-> "tuple", v |-> {"truelat1", "truelat2", "stand_lon"}]
      [] map_proj = "mercator" -> [kind |-> "str", v |-> {"truelat1"}]
      [] map_proj = "polar" -> [kind |-> "tuple", v |-> {"truelat1", "stand_lon"}]
      [] map_proj = "lat-lon" -> [kind |-> "tuple", v |-> {"pole_lat", "pole_lon", "stand_lon"}]
      [] OTHER -> [kind |-> "None", v |-> {}]

\* opt in proj_opts: membership in a tuple; in the string 'truelat1' the test
\* is for a substring, and of all_opts only truelat1 is one
InProjOpts(opt, proj_opts) == opt \in proj_opts.v

\* the index of the last option of the section, 0 when there is no such section
LastInSection(nl, sectname) ==
    IF \E i \in 1..Len(nl.opts) : nl.opts[i].sect = sectname
    THEN CHOOSE i \in 1..Len(nl.opts) :
            /\ nl.opts[i].sect = sectname
            /\ \A j \in (i + 1)..Len(nl.opts) : nl.opts[j].sect # sectname
    ELSE 0

\* self.opts[sectname][optname] = val for a name the section lacks: the new
\* key is the last of the section
AddOpt(nl, sectname, optname, islist, val) ==
    LET at == LastInSection(nl, sectname)
    IN  [nl EXCEPT !.opts = SubSeq(@, 1, at) \o <<Opt(sectname, optname, islist, val)>>
                                \o SubSeq(@, at + 1, Len(@))]

\* self.opts[sectname].pop(optname)
PopOpt(nl, sectname, optname) ==
    LET at == OptIdx(nl, sectname, optname)
    IN  [nl EXCEPT !.opts = SubSeq(@, 1, at - 1) \o SubSeq(@, at + 1, Len(@))]

\* "Shift geog_data_path around to the end": pop("geog_data_path", None), then
\* the value, or None, is assigned to the key again
ShiftGeogDataPath(nl) ==
    LET at == OptIdx(nl, "geogrid", "geog_data_path")
    IN  IF at = 0 THEN AddOpt(nl, "geogrid", "geog_data_path", FALSE, <<PyNone>>)
        ELSE AddOpt(PopOpt(nl, "geogrid", "geog_data_path"), "geogrid", "geog_data_path",
                    nl.opts[at].islist, nl.opts[at].val)

RECURSIVE AdjustFrom(_, _, _, _, _)

\* the branch of the loop of AdjustMapProjOpts that adds the i-th option:
\* nl holds it as ['0'], and set_opt_val(geogrid, opt, 0) returned or raised r
AdjustAdded(r, proj_opts, i, opt_removed) ==
    IF r.err # "" THEN [err |-> r.err, nl |-> r.nl]
    ELSE AdjustFrom(r.nl, proj_opts, i + 1, TRUE, opt_removed)

\* the loop "for opt in all_opts" of AdjustMapProjOpts from the i-th option
\* on, then the shift of geog_data_path: [err, nl]
AdjustFrom(nl, proj_opts, i, opt_added, opt_removed) ==
    IF i > Len(all_opts)
    THEN [err |-> "", nl |-> IF opt_added \/ opt_removed THEN ShiftGeogDataPath(nl) ELSE nl]
    ELSE LET opt == all_opts[i]
             there == OptIdx(nl, "geogrid", opt) # 0
             held == AddOpt(nl, "geogrid", opt, TRUE, <<PyStr(<<"0">>)>>)
         IN  IF InProjOpts(opt, proj_opts) /\ ~there
             THEN AdjustAdded(set_opt_val(held, "geogrid", opt, Scalar(PyInt(0)), FALSE, FALSE),
                              proj_opts, i, opt_removed)
             ELSE IF ~InProjOpts(opt, proj_opts) /\ there
             THEN AdjustFrom(PopOpt(nl, "geogrid", opt), proj_opts, i + 1, opt_added, TRUE)
             ELSE AdjustFrom(nl, proj_opts, i + 1, opt_added, opt_removed)

\* WpsNamelist.AdjustMapProjOpts(map_proj): [err, nl].  The user answers the
\* "Press ENTER to continue." prompt.
AdjustMapProjOpts(nl, map_proj) ==
    IF LastInSection(nl, "geogrid") = 0 THEN [err |-> "KeyError", nl |-> nl]
    ELSE IF MapProjOptions(map_proj).kind = "None" THEN [err |-> "TypeError", nl |-> nl]
    ELSE AdjustFrom(nl, MapProjOptions(map_proj), 1, FALSE, FALSE)

\* the projection options a namelist.wps may hold: those of the registry
FileProjOpts == <<"truelat1", "truelat2", "stand_lon">>

\* the projection options named in held, in the order of the file, each with a
\* value of its own
ProjOptsOfFile(held) ==
    LET F[i \in 0..Len(FileProjOpts)] ==
            IF i = 0 THEN <<>>
            ELSE F[i - 1] \o (IF FileProjOpts[i] \in held
                              THEN <<Opt("geogrid", FileProjOpts[i], FALSE, <<PyFloat(30 + i, 1)>>)>>
                              ELSE <<>>)
    IN  F[Len(FileProjOpts)]

GeogDataPathOfFile == <<Opt("geogrid", "geog_data_path", FALSE, <<PyStr(<<"/", "d">>)>>)>>

\* namelist.wps of md domains with the projection options held; geog_data_path
\* is absent, before them or after them
WpsMapFile(md, held, path_at) ==
    Only(WpsFile(md, md, 0, FormatDate(StartDate), FormatDate(EndDate)), WpsFileOpts)
    \o (IF path_at = "before" THEN GeogDataPathOfFile ELSE <<>>)
    \o ProjOptsOfFile(held)
    \o (IF path_at = "after" THEN GeogDataPathOfFile ELSE <<>>)

WpsMapFiles ==
    {WpsMapFile(md, held, path_at) :
        md \in 1..MaxMapDom, held \in SUBSET SeqRange(FileProjOpts),
        path_at \in {"absent", "before", "after"}}

\* a WpsNamelist as constructed from its file
InitMapProj ==
    /\ \E file_opts \in WpsMapFiles : Constructed("WPS", NewNamelist("WPS", file_opts))
    /\ shared = {}
    /\ last = [op |-> "__init__", err |-> ""]
    /\ ever_raised = FALSE
    /\ edits = 0
    /\ NoRegistry

\* the projections AdjustMapProjOpts knows
Projections == {"lambert", "mercator", "polar", "lat-lon"}

\* wps_namelist.AdjustMapProjOpts(map_proj)
AdjustMapProj ==
    /\ Running
    /\ edits < MaxMapEdits
    /\ \E map_proj \in Projections :
          LET r == AdjustMapProjOpts(namelists["WPS"], map_proj)
          IN  /\ namelists' = [namelists EXCEPT !["WPS"] = r.nl]
              /\ last' = [op |-> "AdjustMapProjOpts", err |-> r.err, map_proj |-> map_proj,
                          before |-> namelists["WPS"].opts]
    /\ ever_raised' = (ever_raised \/ last'.err # "")
    /\ edits' = edits + 1
    /\ UNCHANGED <<shared, reg_vars>>

NextMapProj == AdjustMapProj

SpecMapProj == InitMapProj /\ [][NextMapProj]_vars

(***************************************************************************)
(* Reads with match_n_domains of a WrfNamelist after calls of set_opt_val  *)
(* by a caller that goes on when a call raises.                            *)
(***************************************************************************)
\* the state after WrfNamelist(file) returned
InitRead ==
    /\ \E md \in 1..MaxReadDom :
          Constructed("WRF", NewNamelist("WRF", Only(WrfFile(md, md, 0, StartDate, EndDate, <<>>),
                                                     WrfFileOpts)))
    /\ shared = {}
    /\ last = [op |-> "__init__", err |-> ""]
    /\ ever_raised = FALSE
    /\ edits = 0
    /\ NoRegistry

\* the model follows a namelist up to its first read
NotRead == last.op \notin {"get_opt_val", "get_opt_val_no_sect"}

\* set_opt_val(sectname, optname, vals_in) returned or raised r
ReadSet(optname, r) ==
    /\ NotRead
    /\ edits < MaxReadEdits
    /\ namelists' = [namelists EXCEPT !["WRF"] = r.nl]
    /\ last' = [op |-> "set_opt_val", optname |-> optname, err |-> r.err]
    /\ ever_raised' = (ever_raised \/ r.err # "")
    /\ edits' = edits + 1
    /\ UNCHANGED <<shared, reg_vars>>

\* nl.set_opt_val('domains', 'max_dom', n)
ReadSetMaxDom ==
    \E n \in (0 - 1)..(MaxReadDom + 1) :
        ReadSet("max_dom", set_opt_val(namelists["WRF"], "domains", "max_dom",
                                       Scalar(PyInt(n)), FALSE, FALSE))

\* nl.set_opt_val('domains', 'e_sn', [7]): one value for a per-domain option
ReadSetOne ==
    ReadSet("e_sn", set_opt_val(namelists["WRF"], "domains", "e_sn", List(<<PyInt(7)>>),
                                FALSE, FALSE))

\* the options the reads with match_n_domains name
ReadOpts == {"max_dom", "e_sn", "no_such_opt"}

\* get_opt_val returns the list object the namelist holds: the stored list
\* when it is not reconciled, and the stored list extended in place when it
\* is shorter than max_dom; a list that is not shorter is sliced, which makes
\* a new list
ReturnsStored(nl, sectname, optname, domainnum, match_n_domains) ==
    /\ OptIdx(nl, sectname, optname) # 0
    /\ domainnum = 0
    /\ nl.opts[OptIdx(nl, sectname, optname)].islist
    /\ \/ ~match_n_domains
       \/ ~InRegistry(nl, optname)
       \/ ~is_option_per_domain(nl, optname)
       \/ Len(nl.opts[OptIdx(nl, sectname, optname)].val) < max_domains(nl)

\* the read op of the WRF namelist returned or raised r
ReadReturned(op, sectname, optname, domainnum, match_n_domains, r) ==
    /\ NotRead
    /\ namelists' = [namelists EXCEPT !["WRF"] = r.nl]
    /\ last' = [op |-> op, sectname |-> sectname, optname |-> optname,
                domainnum |-> domainnum, match_n_domains |-> match_n_domains,
                err |-> r.err, ret |-> r.v, before |-> namelists["WRF"].opts,
                max_dom |-> max_domains(namelists["WRF"]),
                stored |-> StoredIn(namelists["WRF"], sectname, optname),
                returns_stored |-> r.err = "" /\ ReturnsStored(namelists["WRF"], sectname,
                                                               optname, domainnum,
                                                               match_n_domains)]
    /\ ever_raised' = (ever_raised \/ r.err # "")
    /\ UNCHANGED <<shared, edits, reg_vars>>

\* namelist.get_opt_val(sectname, optname, domainnum=..., match_n_domains=...)
ReadOptVal ==
    \E optname \in ReadOpts : \E sectname \in SectionsFor(namelists["WRF"], optname) :
        \E domainnum \in 0..2 : \E match_n_domains \in BOOLEAN :
            ReadReturned("get_opt_val", sectname, optname, domainnum, match_n_domains,
                         get_opt_val(namelists["WRF"], sectname, optname, domainnum,
                                     match_n_domains))

\* namelist.get_opt_val_no_sect(optname, domainnum=..., match_n_domains=...)
ReadOptValNoSect ==
    \E optname \in ReadOpts : \E domainnum \in 0..2 : \E match_n_domains \in BOOLEAN :
        ReadReturned("get_opt_val_no_sect",
                     find_opt_section(namelists["WRF"], optname).sect, optname, domainnum,
                     match_n_domains,
                     get_opt_val_no_sect(namelists["WRF"], optname, domainnum, match_n_domains))

NextRead ==
    \/ ReadSetMaxDom
    \/ ReadSetOne
    \/ ReadOptVal
    \/ ReadOptValNoSect

SpecRead == InitRead /\ [][NextRead]_vars

(***************************************************************************)
(* _wps2wrf_dxdy on WpsNamelists of every assignment of parent_id.         *)
(***************************************************************************)
\* the options of the namelist.wps files _wps2wrf_dxdy is called on
WpsDxyFileOpts == WpsFileOpts \cup {"parent_grid_ratio"}

\* namelist.wps of md domains with the parent_id values parents
WpsDxyFile(md, parents) ==
    LET f == Only(WpsFile(md, md, 0, FormatDate(StartDate), FormatDate(EndDate)), WpsDxyFileOpts)
    IN  [i \in 1..Len(f) |->
            IF f[i].name = "parent_id"
            THEN Opt(f[i].sect, "parent_id", TRUE, [d \in 1..md |-> PyInt(parents[d])])
            ELSE f[i]]

\* a WpsNamelist as constructed from its file
InitDxy ==
    /\ \E md \in 1..MaxDxyDom : \E parents \in [1..md -> 1..md] :
          Constructed("WPS", NewNamelist("WPS", WpsDxyFile(md, parents)))
    /\ shared = {}
    /\ last = [op |-> "__init__", err |-> ""]
    /\ ever_raised = FALSE
    /\ edits = 0
    /\ NoRegistry

\* what the user does at the prompt of the debugger
Answers == {"continue", "quit"}

\* _wps2wrf_dxdy(dxy, wps_namelist) with the dx of the namelist
Wps2Wrf ==
    /\ last.op = "__init__"
    /\ \E answer \in Answers :
          LET dxy == StoredVal(namelists["WPS"], "dx")
              r == Wps2WrfAnswered(dxy, namelists["WPS"], answer)
          IN  last' = [op |-> "_wps2wrf_dxdy", dxy |-> dxy, answer |-> answer,
                       traced |-> Wps2WrfTraced(dxy, namelists["WPS"]).traced,
                       err |-> r.err, ret |-> r.v]
    /\ UNCHANGED <<namelists, shared, ever_raised, edits, reg_vars>>

NextDxy == Wps2Wrf

SpecDxy == InitDxy /\ [][NextDxy]_vars

(***************************************************************************)
(* Properties of a single namelist.                                        *)
(***************************************************************************)
\* every option the registry knows holds as many values as its registry
\* cardinality says
RightLengths(nl) ==
    \A i \in 1..Len(nl.opts) :
        InRegistry(nl, nl.opts[i].name) =>
            LET num_entries == lookup_opt_in_registry(nl, nl.opts[i].name).num_entries
            IN  /\ num_entries = "max_domains" => Len(nl.opts[i].val) = max_domains(nl)
                /\ num_entries = "1" => Len(nl.opts[i].val) = 1

\* the last call was a set_opt_val or set_opt_val_no_sect of max_dom that returned
MaxDomWasSet(l) ==
    /\ l.op \in {"set_opt_val", "set_opt_val_no_sect"}
    /\ l.optname = "max_dom"
    /\ l.err = ""

\* C1: after construction from a file and any sequence of set_opt_val and
\* set_opt_val_no_sect calls that all returned, changes of max_dom included,
\* every option of cardinality 'max_domains' holds exactly max_dom values and
\* every option of cardinality '1' exactly one.
C1_OptionLengths ==
    ~ever_raised => \A p \in DOMAIN namelists : RightLengths(namelists[p])

\* a namelist whose max_dom a call changed to more than one domain, with every
\* call so far having returned
C1_Witness ==
    /\ ~ever_raised
    /\ MaxDomWasSet(last)
    /\ max_domains(namelists[last.program]) > 1
    /\ max_domains(namelists[last.program]) # last.max_dom

\* C2: a set_opt_val of max_dom that returns and changes it from m to n turns
\* every per-domain option of m values into the old list followed by n - m
\* copies of its last element when n > m, and into its first n elements when
\* n < m; the options of cardinality '1' keep their values.
C2_MaxDomResizes ==
    [][MaxDomWasSet(last') =>
        LET old == namelists[last'.program]
            new == namelists'[last'.program]
            m == max_domains(old)
            n == max_domains(new)
        IN  \A i \in 1..Len(old.opts) :
              InRegistry(old, old.opts[i].name) =>
                LET num_entries == lookup_opt_in_registry(old, old.opts[i].name).num_entries
                    was == old.opts[i].val
                    is == new.opts[i].val
                IN  /\ (num_entries = "max_domains" /\ Len(was) = m) =>
                          is = IF n > m THEN was \o Repeat(LastOf(was), n - m)
                               ELSE SubSeq(was, 1, n)
                    /\ (num_entries = "1" /\ old.opts[i].name # "max_dom") => is = was
    ]_vars

\* max_dom grew over a list of at least two different values: the values
\* added repeat the last one
C2_Witness ==
    /\ MaxDomWasSet(last)
    /\ last.max_dom >= 2
    /\ max_domains(namelists[last.program]) > last.max_dom
    /\ \E i \in 1..Len(namelists[last.program].opts) :
          LET val == namelists[last.program].opts[i].val
          IN  /\ namelists[last.program].opts[i].name = "e_sn"
              /\ Len(val) = max_domains(namelists[last.program])
              /\ val[Len(val)] = val[last.max_dom]
              /\ val[1] # val[Len(val)]

(***************************************************************************)
(* Properties of a NamelistContainer.                                      *)
(***************************************************************************)
\* C3 as stated: after a construction with any of the resolution policies
\* 'wrf', 'wps' and 'user', and after every container edit that returned, the
\* WPS equivalent of the WRF value of every synchronized option is the WPS
\* value and the dates agree.
C3_AsStated ==
    (/\ last.err = ""
     /\ last.op = "NamelistContainer" => last.sync_priority \in {"wrf", "wps", "user"})
        => Synced(namelists["WRF"], namelists["WPS"])

\* the values a namelist has for the synchronized options are those of another
SameSyncValues(nl, other) ==
    \A i \in 1..Len(sync_options) :
        StoredVal(nl, sync_options[i]) = StoredVal(other, sync_options[i])

\* the namelist has the time period of another namelist of its program
SamePeriod(nl, other) ==
    /\ get_time_period(nl).err = ""
    /\ get_time_period(nl) = get_time_period(other)

\* every value of an option of the namelist is the text
AllText(nl, optname, text) ==
    \A i \in 1..Len(StoredVal(nl, optname)) : StoredVal(nl, optname)[i] = PyStr(text)

IsAbsolute(arg) == arg.t \in {"datetime", "date", "time"}

\* C5 as stated: after NamelistContainer.set_time_period returned, the WRF and
\* the WPS namelist report the same time period, whatever the form of the
\* arguments and whatever the namelists held before.
C5_AsStated ==
    (last.op = "set_time_period" /\ last.err = "") =>
        DatesAgree(namelists["WRF"], namelists["WPS"])

\* C5: after NamelistContainer.set_time_period(start, end) returned, the WRF and
\* the WPS namelist report the same start if start is a datetime, date or
\* time, or if it is a timedelta or None and the two namelists had the same
\* start before; and likewise the same end.
C5_SamePeriod ==
    (last.op = "set_time_period" /\ last.err = "") =>
        LET wrf_dates == get_time_period(namelists["WRF"])
            wps_dates == get_time_period(namelists["WPS"])
        IN  /\ wrf_dates.err = ""
            /\ wps_dates.err = ""
            /\ (IsAbsolute(last.start_time) \/ last.start_agreed)
                  => wrf_dates.start = wps_dates.start
            /\ (IsAbsolute(last.end_time) \/ last.end_agreed)
                  => wrf_dates.end = wps_dates.end

\* set_time_period with two datetime.time arguments brought namelists that
\* disagreed on both dates to the same period
C5_Witness ==
    /\ last.op = "set_time_period"
    /\ last.err = ""
    /\ last.start_time.t = "time"
    /\ last.end_time.t = "time"
    /\ ~last.start_agreed
    /\ ~last.end_agreed
    /\ DatesAgree(namelists["WRF"], namelists["WPS"])

(***************************************************************************)
(* Properties of _parse_option_input and match_option_length_to_domains.   *)
(***************************************************************************)
Parsed == last.op = "_parse_option_input"

Matched == last.op = "match_option_length_to_domains"

OptType == WrfRegistry[last.optname].type

OptPerDomain == WrfRegistry[last.optname].num_entries = "max_domains"

\* the format rule 3a-3d states for a value of a registry type, with the t/f
\* shorthand of a logical
FormatOk(reg_type, text) ==
    CASE reg_type = "logical" ->
            \/ text \in {<<".", "t", "r", "u", "e", ".">>, <<".", "f", "a", "l", "s", "e", ".">>}
            \/ LowerWord(text) \in {<<"t">>, <<"f">>}
      [] reg_type = "integer" -> IntTextOk(text)
      [] reg_type = "real" -> FloatTextOk(text) /\ \E i \in 1..Len(text) : text[i] = "."
      [] reg_type = "character" -> Len(text) >= 2 /\ text[1] = "'" /\ text[Len(text)] = "'"

AllFormatOk == \A i \in 1..Len(last.vals) : FormatOk(OptType, last.vals[i])

\* a supplied value as the returned list carries it: the text, a logical t or
\* f written out as .true. or .false.
Supplied(text) ==
    IF OptType = "logical" /\ LowerWord(text) = <<"t">> THEN PyStr(<<".", "t", "r", "u", "e", ".">>)
    ELSE IF OptType = "logical" /\ LowerWord(text) = <<"f">>
    THEN PyStr(<<".", "f", "a", "l", "s", "e", ".">>)
    ELSE PyStr(text)

\* the input begins with '@N' or '@A:B', either bound omittable, 1-based
HasSelector ==
    /\ last.sel.kind \in {"one", "range"}
    /\ last.sel.has_a => last.sel.a >= 1

\* the domains the selector addresses
Addressed ==
    {d \in 1..last.max_dom :
        IF last.sel.kind = "one" THEN d = last.sel.a
        ELSE (last.sel.has_a => d >= last.sel.a) /\ (last.sel.has_b => d <= last.sel.b)}

\* the list q followed by copies of its last element, n elements in all
PaddedWithLast(q, n) == [i \in 1..n |-> IF i <= Len(q) THEN q[i] ELSE q[Len(q)]]

\* C6: _parse_option_input of a per-domain option with a selector '@N' or
\* '@A:B' (1-based, inclusive, either bound omittable) and as many values of
\* the option's format as the selector addresses domains returns a list of
\* max_dom values: the addressed domains carry the supplied values in order
\* (a logical t or f as .true. or .false.), every other domain its current
\* value.
C6_SelectorReplaces ==
    (Parsed /\ OptPerDomain /\ HasSelector /\ Len(last.vals) = Cardinality(Addressed)
     /\ AllFormatOk) =>
        LET first == CHOOSE d \in Addressed : \A e \in Addressed : d <= e
        IN  /\ last.err = ""
            /\ Len(last.ret) = last.max_dom
            /\ \A d \in 1..last.max_dom :
                  last.ret[d] = IF d \in Addressed THEN Supplied(last.vals[d - first + 1])
                                ELSE last.curr[d]

\* '@2:3 5,6' on the four values of e_we changed the second and the third
C6_Witness ==
    /\ Parsed
    /\ last.optname = "e_we"
    /\ last.input_str = <<"@", "2", ":", "3", " ", "5", ",", "6">>
    /\ last.max_dom = 4
    /\ last.ret = <<last.curr[1], PyStr(<<"5">>), PyStr(<<"6">>), last.curr[4]>>
    /\ last.curr[2] # last.curr[3]

C8_AsStated ==
    (Matched /\ Len(last.optval) < last.max_dom) =>
        /\ last.err = ""
        /\ Len(last.ret) = last.max_dom
        /\ last.ret = PaddedWithLast(last.optval, last.max_dom)

\* C8: match_option_length_to_domains, given a list of at least one value that
\* is shorter than max_dom, returns a list of exactly max_dom values, the
\* input followed by copies of its last element; _parse_option_input without
\* a selector does the same with the values given for a per-domain option.
C8_PadsWithLast ==
    /\ (Matched /\ last.optval # <<>> /\ Len(last.optval) < last.max_dom) =>
          /\ last.err = ""
          /\ Len(last.ret) = last.max_dom
          /\ last.ret = PaddedWithLast(last.optval, last.max_dom)
    /\ (Parsed /\ OptPerDomain /\ last.sel.kind = "none" /\ Len(last.vals) < last.max_dom
        /\ AllFormatOk) =>
          /\ last.err = ""
          /\ last.ret = PaddedWithLast([i \in 1..Len(last.vals) |-> Supplied(last.vals[i])],
                                       last.max_dom)

\* '1,2' for the four domains of e_we gave '1', '2', '2', '2'
C8_Witness ==
    /\ Parsed
    /\ last.optname = "e_we"
    /\ last.input_str = <<"1", ",", "2">>
    /\ last.max_dom = 4
    /\ last.ret = <<PyStr(<<"1">>), PyStr(<<"2">>), PyStr(<<"2">>), PyStr(<<"2">>)>>

\* C9: match_option_length_to_domains, given a list longer than max_dom,
\* raises NamelistValueError 'More values given (n) than domains (m)' when
\* error_if_too_long is set, and otherwise, with trim_extra, returns the first
\* max_dom values; _parse_option_input without a selector raises that error
\* for more values than domains of a per-domain option.
C9_TooLong ==
    /\ (Matched /\ Len(last.optval) > last.max_dom) =>
          /\ last.error_if_too_long =>
                /\ last.err = "NamelistValueError"
                /\ last.msg = Msg("More values given than domains",
                                  <<Len(last.optval), last.max_dom>>, "")
          /\ (~last.error_if_too_long /\ last.trim_extra) =>
                /\ last.err = ""
                /\ last.ret = SubSeq(last.optval, 1, last.max_dom)
    /\ (Parsed /\ OptPerDomain /\ last.sel.kind = "none" /\ Len(last.vals) > last.max_dom) =>
          /\ last.err = "NamelistValueError"
          /\ last.msg = Msg("More values given than domains",
                            <<Len(last.vals), last.max_dom>>, "")
          /\ last.ret = <<>>

\* a list of one value more than domains was cut to the first max_dom values
C9_Witness ==
    /\ Matched
    /\ last.max_dom >= 2
    /\ Len(last.optval) = last.max_dom + 1
    /\ ~last.error_if_too_long
    /\ last.trim_extra
    /\ last.ret = SubSeq(last.optval, 1, last.max_dom)

\* C10 as stated: _parse_option_input accepts values only when the text of
\* each has the format of the option's registry type (a real has a decimal
\* point, a logical is .true./.false. or t/f, a character is in single
\* quotes), and otherwise raises NamelistValueError naming the incorrect format
\* for that type.
C10_AsStated ==
    Parsed =>
        /\ last.err = "" => AllFormatOk
        /\ (/\ ~AllFormatOk
            /\ last.sel.kind # "bare"
            /\ last.msg.kind \notin {"requires exactly 1 value", "More values given than domains",
                                     "domain(s) specified to change, but values provided"}) =>
              /\ last.err = "NamelistValueError"
              /\ last.msg.kind = "incorrect format"
              /\ last.msg.type = OptType

\* the values as _parse_option_input checks their type: what was supplied,
\* padded to the domains when a per-domain option is given without selector
CheckedVals ==
    LET supplied == [i \in 1..Len(last.vals) |-> Supplied(last.vals[i])]
    IN  IF OptPerDomain /\ last.sel.kind = "none"
        THEN PaddedWithLast(supplied, last.max_dom) ELSE supplied

\* the i-th value checked cannot be converted to the type of the option
Offending(i) == _type_conversions(OptType, CheckedVals[i]).err # ""

\* the right number of values was given, so that their type is checked
CountAccepted ==
    /\ last.sel.kind # "bare"
    /\ last.sel.has_a => last.sel.a >= 1
    /\ IF ~OptPerDomain THEN Len(last.vals) = 1 /\ last.vals[1] # <<>>
       ELSE IF last.sel.kind = "none" THEN Len(last.vals) <= last.max_dom
       ELSE Len(last.vals) = Cardinality(Addressed)

\* the domain numbers of the offending values, in order: the first value is
\* that of domain 1, or of the first domain the selector addresses
OffendingDomains ==
    LET first == IF last.sel.has_a THEN last.sel.a ELSE 1
        offending == SelectSeq([i \in 1..Len(CheckedVals) |-> i], LAMBDA i : Offending(i))
    IN  [k \in 1..Len(offending) |-> first + offending[k] - 1]

\* C11 as stated: when _parse_option_input rejects values for their type it
\* raises NamelistValueError whose message lists exactly the 1-based domain
\* numbers of the offending values, without a selector and for every selector
\* form ('@N', '@A:B', '@A:', '@:B', '@:'); no other exception escapes.
C11_AsStated ==
    (Parsed /\ CountAccepted /\ \E i \in 1..Len(CheckedVals) : Offending(i)) =>
        /\ last.err = "NamelistValueError"
        /\ last.msg = Msg("incorrect format", OffendingDomains, OptType)
        /\ last.ret = <<>>

(***************************************************************************)
(* Properties of cmd_set_other_opt.                                        *)
(***************************************************************************)
\* the step is a call of cmd_set_other_opt
CmdCalled == last'.op = "cmd_set_other_opt"

C13_AsStated ==
    [][(CmdCalled /\ last'.force_wrf_only) => namelists'["WPS"] = namelists["WPS"]]_vars

(***************************************************************************)
(* Properties of set_opt_val, set_opt_val_no_sect and get_opt_val.         *)
(***************************************************************************)
\* the step is a call of set_opt_val or set_opt_val_no_sect
SetCalled == last'.op \in {"set_opt_val", "set_opt_val_no_sect"}

\* C14 as stated: an edit is applied fully or not at all: whenever set_opt_val
\* or set_opt_val_no_sect raises (unknown or ambiguous option, wrong length,
\* wrong type, a failure inside the max_dom callback), opts is exactly what the
\* last successful set_opt_val left.
C14_AsStated == [][(SetCalled /\ last'.err # "") => namelists' = namelists]_vars

\* the last call was set_opt_val with a list for an option that the section
\* named holds and the registry knows
SetList ==
    /\ last.op = "set_opt_val"
    /\ last.vals_in.islist
    /\ OptIdx(namelists[last.program], last.sectname, last.optname) # 0
    /\ InRegistry(namelists[last.program], last.optname)

\* the option of the last call has one value per domain
SetPerDomain ==
    lookup_opt_in_registry(namelists[last.program], last.optname).num_entries = "max_domains"

\* the number of values the option of the last call required
RequiredCount == IF SetPerDomain THEN last.max_dom ELSE 1

\* the values given are of the registry type of the option
OfRegistryType ==
    \A i \in 1..Len(last.vals_in.v) :
        _type_mappings(lookup_opt_in_registry(namelists[last.program], last.optname).type,
                       last.vals_in.v[i])

\* the list q padded with its last value, or truncated, to n values
Resized(q, n) == IF Len(q) < n THEN PaddedWithLast(q, n) ELSE SubSeq(q, 1, n)

\* C15 as stated: set_opt_val with resize_if_needed=False and a list whose
\* length differs from the option's required count raises NamelistFormatError;
\* with resize_if_needed=True a per-domain list of any non-matching length is
\* accepted and stored padded with its last value or truncated to max_dom.
C15_AsStated ==
    SetList =>
        /\ (~last.resize /\ Len(last.vals_in.v) # RequiredCount) =>
              last.err = "NamelistFormatError"
        /\ (last.resize /\ SetPerDomain /\ Len(last.vals_in.v) # last.max_dom) =>
              /\ last.err = ""
              /\ StoredVal(namelists[last.program], last.optname)
                    = Resized(last.vals_in.v, last.max_dom)

\* C15: set_opt_val with resize_if_needed=False and a list of values of the
\* option's registry type whose length differs from the option's required
\* count (max_dom for a per-domain option, 1 otherwise) raises
\* NamelistFormatError and stores nothing; with resize_if_needed=True a
\* non-empty per-domain list of such values of any non-matching length is
\* accepted and stored padded with its last value or truncated to max_dom.
C15_LengthChecked ==
    (SetList /\ OfRegistryType) =>
        /\ (~last.resize /\ Len(last.vals_in.v) # RequiredCount) =>
              /\ last.err = "NamelistFormatError"
              /\ last.ret = <<>>
        /\ (last.resize /\ SetPerDomain /\ last.vals_in.v # <<>>
            /\ Len(last.vals_in.v) # last.max_dom) =>
              /\ last.err = ""
              /\ StoredVal(namelists[last.program], last.optname)
                    = Resized(last.vals_in.v, last.max_dom)

\* two values for the three domains of e_we were stored as three
C15_Witness ==
    /\ SetList
    /\ last.optname = "e_we"
    /\ last.max_dom = 3
    /\ Len(last.vals_in.v) = 2
    /\ last.resize
    /\ StoredVal(namelists[last.program], "e_we")
          = <<last.vals_in.v[1], last.vals_in.v[2], last.vals_in.v[2]>>

\* the last call was set_opt_val or set_opt_val_no_sect for an option that the
\* namelist holds (in the section named, or in one section) and the registry
\* knows
SetKnown ==
    /\ last.op \in {"set_opt_val", "set_opt_val_no_sect"}
    /\ InRegistry(namelists[last.program], last.optname)
    /\ IF last.op = "set_opt_val"
       THEN OptIdx(namelists[last.program], last.sectname, last.optname) # 0
       ELSE find_opt_section(namelists[last.program], last.optname).sect # NoSect

\* the registry type of the option of the last call
SetType == lookup_opt_in_registry(namelists[last.program], last.optname).type

\* C16 as stated: set_opt_val never stores a value that is not of the option's
\* registry type: with convert_type_if_needed=False a value of another type
\* raises NamelistTypeError, with convert_type_if_needed=True a value that
\* cannot be converted to the registry type makes the call fail with
\* NamelistTypeError too, and after every successful call all stored values of
\* the option have the declared type.
C16_AsStated ==
    SetKnown =>
        /\ (~last.convert /\ ~OfRegistryType) => last.err = "NamelistTypeError"
        /\ (/\ last.convert
            /\ \E i \in 1..Len(last.vals_in.v) :
                  _type_conversions(SetType, last.vals_in.v[i]).err # "") =>
              last.err = "NamelistTypeError"
        /\ last.err = "" =>
              \A i \in 1..Len(StoredVal(namelists[last.program], last.optname)) :
                  _type_mappings(SetType, StoredVal(namelists[last.program], last.optname)[i])

\* the step is a read or a write of an option of a namelist
LookedUp ==
    last'.op \in {"get_opt_val", "get_opt_val_no_sect", "set_opt_val", "set_opt_val_no_sect"}

\* the sections of the namelist that hold the option
SectionsOf(nl, optname) ==
    {nl.opts[i].sect : i \in {j \in 1..Len(nl.opts) : nl.opts[j].name = optname}}

\* the option the step looks up is absent: from the section named, or from
\* the namelist when no section is given
LooksUpAbsent ==
    IF last'.op \in {"get_opt_val", "set_opt_val"}
    THEN last'.sectname \notin SectionsOf(namelists[last'.program], last'.optname)
    ELSE SectionsOf(namelists[last'.program], last'.optname) = {}

\* the step gives no section and the option is in more than one
LooksUpAmbiguous ==
    /\ last'.op \in {"get_opt_val_no_sect", "set_opt_val_no_sect"}
    /\ Cardinality(SectionsOf(namelists[last'.program], last'.optname)) > 1

\* C17 as stated: looking up an option fails with NamelistKeyError, for reads
\* as well as writes (get_opt_val, get_opt_val_no_sect, set_opt_val,
\* set_opt_val_no_sect), when the option is absent and when it is in more than
\* one section and no section is given; no value of a guessed section is
\* returned or set.
C17_AsStated ==
    [][(LookedUp /\ (LooksUpAbsent \/ LooksUpAmbiguous)) =>
          /\ last'.err = "NamelistKeyError"
          /\ last'.ret = <<>>
          /\ namelists' = namelists]_vars

\* the last call was get_opt_val with a domainnum k >= 1 for an option the
\* section named holds
GotDomain ==
    /\ last.op = "get_opt_val"
    /\ last.domainnum >= 1
    /\ OptIdx(namelists[last.program], last.sectname, last.optname) # 0

\* C18 as stated: get_opt_val(section, name, domainnum=k) returns the k-th
\* element (1-based) of the option's value list for every k from 1 to the
\* length of the list, and raises NamelistError for every k greater than the
\* current length of the list.
C18_AsStated ==
    GotDomain =>
        IF last.domainnum <= Len(last.stored)
        THEN last.err = "" /\ last.ret = <<last.stored[last.domainnum]>>
        ELSE last.err = "NamelistError"


(***************************************************************************)
(* Properties of Registry.                                                 *)
(***************************************************************************)
\* the Registry constructor returned: registry holds its table
RegistryParsed == registry.state = "done"

RECURSIVE ActiveLines(_, _, _)
\* the rconfig lines that lie outside every disabled region, in reading
\* order from line i of reg_file on, the lines of an included file in the
\* place of the include line; open holds, outermost first, the conditions of
\* the ifdef lines whose endif comes later
ActiveLines(reg_file, i, open) ==
    IF reg_file \notin DOMAIN reg_files THEN <<>>
    ELSE IF i > Len(reg_files[reg_file]) THEN <<>>
    ELSE LET line == reg_files[reg_file][i]
             disabled == \E j \in 1..Len(open) : ~open[j]
         IN  IF line.entry = "ifdef"
             THEN ActiveLines(reg_file, i + 1,
                              Append(open, check_envvar(envvar_config, line.varname, line.state)))
             ELSE IF line.entry = "endif"
             THEN ActiveLines(reg_file, i + 1, SubSeq(open, 1, Len(open) - 1))
             ELSE (IF disabled THEN <<>>
                   ELSE IF line.entry = "rconfig" THEN <<line.cols>>
                   ELSE IF line.entry = "include" THEN ActiveLines(line.file, 1, <<>>)
                   ELSE <<>>)
                  \o ActiveLines(reg_file, i + 1, open)

\* the names the rconfig lines outside every disabled region define
ActiveNames ==
    LET active == ActiveLines(TopFile, 1, <<>>)
    IN  {active[i][3] : i \in 1..Len(active)}

\* C19: the table Registry produces holds the names of the rconfig lines that
\* lie outside every disabled region, those of included files too, and no
\* name that only lines between a false ifdef and its matching endif define,
\* also when ifdef/endif pairs are nested inside that region
C19_AsStated == RegistryParsed => DOMAIN registry.table["rconfig"] = ActiveNames

\* the first call of _parse_reg_line made for the name key
FirstMet(key) ==
    reg_trace[CHOOSE i \in 1..Len(reg_trace) :
                 /\ reg_trace[i].key = key
                 /\ \A j \in 1..(i - 1) : reg_trace[j].key # key]

\* C20: of the definitions of one rconfig name met while a registry is read,
\* in one file or in a file and a file it includes, the table holds the one
\* met first in reading order, and every later one is logged and nothing more
C20_AsStated ==
    RegistryParsed =>
        /\ \A i \in 1..Len(reg_trace) :
              registry.table["rconfig"][reg_trace[i].key] = FirstMet(reg_trace[i].key).line_dict
        /\ \A i \in 1..Len(reg_trace) :
              (\E j \in 1..(i - 1) : reg_trace[j].key = reg_trace[i].key) => reg_trace[i].logged


\* the last call was lookup_reg_entry without match_case
LookedUpAnyCase == last.op = "lookup_reg_entry" /\ ~last.match_case

\* the names of the rconfig table that are the looked-up name but for the
\* letter case, when the entry type looked up is rconfig but for the case
CaseMatches ==
    IF LowerWord(last.entry_type) # "rconfig" THEN {}
    ELSE {key \in DOMAIN registry.table["rconfig"] : LowerWord(key) = LowerWord(last.entry_name)}

\* C21: lookup_reg_entry without match_case returns the one entry whose name
\* is the name asked for but for the letter case, and raises KeyError when
\* no entry or more than one entry is; it never returns one of several
C21_LookupUnique ==
    LookedUpAnyCase =>
        IF Cardinality(CaseMatches) = 1
        THEN /\ last.err = ""
             /\ last.ret = <<registry.table["rconfig"][CHOOSE key \in CaseMatches : TRUE]>>
        ELSE /\ last.err = "KeyError"
             /\ last.ret = <<>>

\* two entries match the name looked up and the lookup raised KeyError
C21_Witness ==
    /\ LookedUpAnyCase
    /\ Cardinality(CaseMatches) = 2
    /\ last.err = "KeyError"


(***************************************************************************)
(* Properties of ReadNamelist and WriteNamelist.                           *)
(***************************************************************************)
\* a file was read, written, read again and written again
WrittenTwice == last.op = "WriteNamelist" /\ Len(last.written) = 2

\* C22: reading and writing a namelist round-trips: the file written after
\* read, write and read again holds the same sections, option names, option
\* order and option values as the file written after the first read
C22_AsStated == WrittenTwice => last.written[2] = last.written[1]


(***************************************************************************)
(* Properties of WrfNamelist.set_time_period.                              *)
(***************************************************************************)
\* the last call was set_time_period on a WRF namelist, and it returned
WrfPeriodSet == last.op = "set_time_period" /\ last.err = "" /\ DOMAIN namelists = {"WRF"}

\* the bound a call asks for with the argument arg when the bound was curr
AskedBound(arg, curr) ==
    CASE arg.t = "None" -> curr
      [] arg.t = "timedelta" -> AddDelta(curr, arg.td)
      [] arg.t = "date" -> DateTime(arg.dt.year, arg.dt.month, arg.dt.day, 0, 0, 0)
      [] OTHER -> arg.dt

\* the seconds from the datetime sd to the datetime ed
Elapsed(sd, ed) ==
    (ToOrdinal(ed) - ToOrdinal(sd)) * 86400 + SecondOfDay(ed) - SecondOfDay(sd)

\* year, month, day, hour, minute and second of a datetime
Components(x) == <<x.year, x.month, x.day, x.hour, x.minute, x.second>>

\* the option of nl is stored with the integer n as each of its values
StoredAs(nl, optname, n) ==
    LET val == StoredVal(nl, optname)
    IN  val # <<>> /\ \A i \in 1..Len(val) : val[i] = PyInt(n)

\* the first value of a run field of nl
RunField(nl, i) == StoredVal(nl, WrfRunFields[i])[1].n

FddaNearRunLength(nl) ==
    /\ IsOptInNamelist(nl, "gfdda_end_h")
    /\ LET secs == RunField(nl, 1) * 86400 + RunField(nl, 2) * 3600 + RunField(nl, 3) * 60
                      + RunField(nl, 4)
       IN  Abs(secs - 3600 * StoredVal(nl, "gfdda_end_h")[1].n) < 3600

\* the hours, rounded up, from the start to the end the namelist holds
RunHoursRoundedUp(nl) ==
    LET period == WrfGetTimePeriod(nl)
    IN  (Elapsed(period.start, period.end) + 3599) \div 3600

\* C26: a WrfNamelist decides at construction whether gfdda_end_h tracks the
\* run length, which it does iff gfdda_end_h is present and within one hour
\* of the run length of the run fields; no later call changes the decision;
\* when it tracks, after every set_time_period gfdda_end_h is the new run
\* length in hours rounded up, and when it does not, set_time_period leaves
\* gfdda_end_h as it was
C26_AsStated ==
    /\ (last.op = "__init__" /\ DOMAIN namelists = {"WRF"}) =>
          (namelists["WRF"].update_fdda_end <=> FddaNearRunLength(namelists["WRF"]))
    /\ [][/\ namelists'["WRF"].update_fdda_end = namelists["WRF"].update_fdda_end
          /\ (last'.op = "set_time_period" /\ last'.err = "") =>
                IF namelists["WRF"].update_fdda_end
                THEN StoredAs(namelists'["WRF"], "gfdda_end_h",
                              RunHoursRoundedUp(namelists'["WRF"]))
                ELSE StoredVal(namelists'["WRF"], "gfdda_end_h")
                        = StoredVal(namelists["WRF"], "gfdda_end_h")]_vars


(***************************************************************************)
(* Properties of match_option_length_to_domains applied to its own result. *)
(***************************************************************************)
\* the last call was match_option_length_to_domains, and it returned
MatchReturnedList == Matched /\ last.err = ""

\* match_option_length_to_domains of the WRF namelist, with the flags of the
\* last call, applied to the list the last call returned
MatchedAgain ==
    match_option_length_to_domains(namelists["WRF"], List(last.ret),
                                   last.error_if_too_long, last.trim_extra)

\* C24 as stated: domain expansion is idempotent: for every value list and
\* every max_dom, match_option_length_to_domains applied to the list it
\* returned returns the same list
C24_AsStated ==
    MatchReturnedList => (MatchedAgain.err = "" /\ MatchedAgain.v = last.ret)

\* C24: for every value list and every max_dom that is not negative,
\* match_option_length_to_domains applied to the list it returned returns
\* the same list
C24_Idempotent ==
    (MatchReturnedList /\ last.max_dom >= 0) =>
        (MatchedAgain.err = "" /\ MatchedAgain.v = last.ret)

\* a list shorter than max_dom was padded, and one longer was trimmed
C24_Witness ==
    /\ MatchReturnedList
    /\ Len(last.optval) # 0
    /\ Len(last.optval) + 2 <= last.max_dom
    /\ Len(last.ret) = last.max_dom

C24_WitnessTrimmed ==
    /\ MatchReturnedList
    /\ Len(last.optval) > last.max_dom
    /\ Len(last.ret) = last.max_dom


(***************************************************************************)
(* Properties of the transforms between the WRF and the WPS value of a     *)
(* synchronized option.                                                    *)
(***************************************************************************)
\* the container holds both namelists, and the WPS equivalent of the WRF value
\* of the option is the WPS value
SyncedOn(optname) ==
    /\ DOMAIN namelists = Programs
    /\ PyListEq(WpsEquivalent(optname, StoredVal(namelists["WRF"], optname)),
                StoredVal(namelists["WPS"], optname))

\* wrfopt_to_wpsopt(optname, wpsopt_to_wrfopt(optname, wpsval)) is wpsval
WpsToWrfAndBack(optname, wpsval) ==
    LET wrfval == wpsopt_to_wrfopt(AsContainer, optname, wpsval)
    IN  /\ wrfval.err = ""
        /\ PyListEq(wrfopt_to_wpsopt(AsContainer, optname, wrfval.v), wpsval)

\* wpsopt_to_wrfopt(optname, wrfopt_to_wpsopt(optname, wrfval)) is wrfval
WrfToWpsAndBack(optname, wrfval) ==
    LET back == wpsopt_to_wrfopt(AsContainer, optname,
                                 wrfopt_to_wpsopt(AsContainer, optname, wrfval))
    IN  back.err = "" /\ PyListEq(back.v, wrfval)

\* both transforms return the value they are given
BothIdentity(optname, val) ==
    /\ wrfopt_to_wpsopt(AsContainer, optname, val) = val
    /\ wpsopt_to_wrfopt(AsContainer, optname, val) = [err |-> "", v |-> val]

\* C25: on the values of a synchronized option, for dx and dy a WPS value
\* converted to WRF and back is the same WPS value and a WRF value converted
\* to WPS and back is the same WRF value; for every other synchronized
\* option both transforms are the identity
C25_AsStated ==
    \A i \in 1..Len(sync_options) :
        LET optname == sync_options[i]
        IN  SyncedOn(optname) =>
                IF optname \in {"dx", "dy"}
                THEN /\ WpsToWrfAndBack(optname, StoredVal(namelists["WPS"], optname))
                     /\ WrfToWpsAndBack(optname, StoredVal(namelists["WRF"], optname))
                ELSE /\ BothIdentity(optname, StoredVal(namelists["WPS"], optname))
                     /\ BothIdentity(optname, StoredVal(namelists["WRF"], optname))


(***************************************************************************)
(* Properties of WpsNamelist.AdjustMapProjOpts.                            *)
(***************************************************************************)
\* the options each projection requires
RequiredBy(map_proj) ==
    CASE map_proj = "lambert" -> {"truelat1", "truelat2", "stand_lon"}
      [] map_proj = "mercator" -> {"truelat1"}
      [] map_proj = "polar" -> {"truelat1", "stand_lon"}
      [] map_proj = "lat-lon" -> {"pole_lat", "pole_lon", "stand_lon"}

\* the projection options among the options opts, those of the geogrid section
ProjOptsHeld(opts) ==
    {o.name : o \in {x \in SeqRange(opts) : x.sect = "geogrid" /\ x.name \in SeqRange(all_opts)}}

\* the value opts holds for the geogrid option of the name
GeogridVal(opts, optname) ==
    (CHOOSE o \in SeqRange(opts) : o.sect = "geogrid" /\ o.name = optname).val

\* C27: after AdjustMapProjOpts(p) for an allowed projection p, the geogrid
\* section holds, of truelat1, truelat2, stand_lon, pole_lat and pole_lon,
\* exactly those p requires: the missing ones were added with the value zero,
\* the ones that were there kept their value, the others were removed; and
\* when an option was added or removed geog_data_path is the last option of
\* the section
C27_AsStated ==
    last.op = "AdjustMapProjOpts" =>
        LET now == namelists["WPS"].opts
            held_before == ProjOptsHeld(last.before)
            required == RequiredBy(last.map_proj)
        IN  /\ last.err = ""
            /\ ProjOptsHeld(now) = required
            /\ \A opt \in required \ held_before : PyListEq(GeogridVal(now, opt), <<PyInt(0)>>)
            /\ \A opt \in required \cap held_before :
                  GeogridVal(now, opt) = GeogridVal(last.before, opt)
            /\ held_before # required =>
                  now[LastInSection(namelists["WPS"], "geogrid")].name = "geog_data_path"


(***************************************************************************)
(* Properties of the values _parse_option_input returns for a logical.     *)
(***************************************************************************)
\* the two canonical Fortran literals, as Python strings
FortranLogicals ==
    {PyStr(<<".", "t", "r", "u", "e", ".">>), PyStr(<<".", "f", "a", "l", "s", "e", ".">>)}

\* C28: for an option of registry type logical every value of the list that
\* _parse_option_input returns is the string '.true.' or the string '.false.'
C28_AsStated ==
    (Parsed /\ last.err = "" /\ OptType = "logical") =>
        \A i \in 1..Len(last.ret) : last.ret[i] \in FortranLogicals


(***************************************************************************)
(* Properties of the reads with match_n_domains.                           *)
(***************************************************************************)
\* the last call was a read of the WRF namelist
WasRead == last.op \in {"get_opt_val", "get_opt_val_no_sect"} /\ "before" \in DOMAIN last

\* the last read asked for reconciliation of a per-domain option and returned
Reconciled ==
    /\ WasRead
    /\ last.err = ""
    /\ last.match_n_domains
    /\ InRegistry(namelists["WRF"], last.optname)
    /\ is_option_per_domain(namelists["WRF"], last.optname)

\* C29: get_opt_val and get_opt_val_no_sect never modify the namelist: for
\* every argument combination, also match_n_domains=True on an option whose
\* stored list is shorter or longer than max_dom, opts is after the call what
\* it was before, and the reconciled list returned is not the list the
\* namelist holds
C29_AsStated ==
    WasRead =>
        /\ namelists["WRF"].opts = last.before
        /\ Reconciled => ~last.returns_stored


(***************************************************************************)
(* Properties of _wps2wrf_dxdy.                                            *)
(***************************************************************************)
\* the parent_id and the parent_grid_ratio of domain d in the WPS namelist
ParentOf(d) == StoredVal(namelists["WPS"], "parent_id")[d].n

RatioOf(d) == StoredVal(namelists["WPS"], "parent_grid_ratio")[d].n

RECURSIVE Ancestor(_, _)
\* the k-th ancestor of domain d; domain 1 has none but itself
Ancestor(d, k) == IF k = 0 \/ d = 1 THEN d ELSE Ancestor(ParentOf(d), k - 1)

\* the parent chain of every domain reaches domain 1
AllReachOne ==
    \A d \in 1..max_domains(namelists["WPS"]) :
        Ancestor(d, max_domains(namelists["WPS"])) = 1

\* x is y divided by the integer ratio
IsQuotient(x, y, ratio) == x.n * y.d * ratio = y.n * x.d

\* C30: _wps2wrf_dxdy terminates for every assignment of parent_id over the
\* domains 1..max_dom: when the parent chain of every domain reaches domain 1
\* it returns max_dom values, the first the WPS value and every other the
\* value of its parent divided by its parent_grid_ratio; when some chain is
\* circular it raises NamelistRuntimeError
C30_AsStated ==
    last.op = "_wps2wrf_dxdy" =>
        IF AllReachOne
        THEN /\ last.err = ""
             /\ Len(last.ret) = max_domains(namelists["WPS"])
             /\ PyEq(last.ret[1], last.dxy[1])
             /\ \A d \in 2..Len(last.ret) :
                   IsQuotient(last.ret[d], last.ret[ParentOf(d)], RatioOf(d))
        ELSE last.err = "NamelistRuntimeError"

====
